---- MODULE Spec2Model ----
(***************************************************************************)
(* Order lifecycle engine of the trader daemon (Engine, src/daemon/spruce.h *)
(* lines 1774-4465) with the transport adapter of src/daemon/wavesrest.cpp. *)
(* One market is modelled.  Prices and sizes are integers (satoshi units).  *)
(* The engine is a single-threaded reactor: every action below is one       *)
(* event handler run to completion.                                         *)
(***************************************************************************)
EXTENDS Integers, Sequences, FiniteSets, Bags, TLC

----------------------------------------------------------------------------
(* Bounds of the model *)

\* slots that setorder may append to position_index
MaxSlots == 3
\* Position objects constructed during a run
MaxCreated == 5
\* orders the exchange accepts during a run
MaxOrders == 2
\* clock ticks after StartTime
MaxTicks == 1

----------------------------------------------------------------------------
(* Program constants and settings *)

\* Time is counted in ticks.  A tick is longer than every timeout and delay of
\* the settings: what happened in an earlier tick is older than any timeout
\* (t < now - 0), what happened in this tick is within any delay (t > now - 1).
StartTime == 10
request_timeout == 0
cancel_timeout == 0
safety_delay_time == 1
ticker_safety_delay_time == 1
price_ticksize == 1
\* market settings (Engine::setMarketSettings): the same for every run
order_dc == 2
order_dc_nice == 0
order_landmark_thresh == 0
\* market settings that differ between runs
MarketSettings ==
    { [order_min |-> 2, order_max |-> 3, order_landmark_start |-> 0,
       order_landmark_thresh |-> order_landmark_thresh],
      [order_min |-> 1, order_max |-> 3, order_landmark_start |-> 2,
       order_landmark_thresh |-> order_landmark_thresh] }

SIDE_BUY == "buy"
SIDE_SELL == "sell"
CANCELLING_FOR_DC == "DC"
CANCELLING_FOR_SHORTLONG == "SHORTLONG"
CANCELLING_FOR_SLIPPAGE_RESET == "SLIPPAGE_RESET"
CANCELLING_LOWEST == "LOWEST"
CANCELLING_HIGHEST == "HIGHEST"
CANCELLING_FOR_USER == "USER"
\* set by the max-age check of onCheckTimeouts, which is off (order age limit 0)
CANCELLING_FOR_MAX_AGE == "MAX_AGE"
\* the reason cancelOrder( pos ) stores when the caller passes none
CANCELLING_DEFAULT == "NONE"

\* builds of the engine: the order id is prefixed with the market on BINANCE
Builds == {"BINANCE", "POLONIEX"}
\* the market's name as a token of an order id
MarketTok == 0

VARIABLES
    build,          \* which EXCHANGE_* the engine was compiled for
    info,           \* market_info[market]: the settings of setMarketSettings
    now,            \* QDateTime::currentMSecsSinceEpoch()
    positions,      \* positions_all with each Position's fields: id -> record
    positions_queued,
    positions_active,
    positions_by_number, \* order id -> position id
    positions_freed, \* deleted Position objects positions_by_number still
                    \* points to: id -> the members a fill reads
    running,        \* the process has not crashed
    position_index, \* market_info[market].position_index
    order_prices,   \* market_info[market].order_prices (bag)
    highest_buy,    \* market_info[market].highest_buy
    lowest_sell,    \* market_info[market].lowest_sell
    diverge_converge,     \* set of pending DC groups
    diverging_converging, \* bag of reserved slot indices
    order_grace_times,    \* unknown order id -> time it was first seen
    is_running_cancelall, \* the next open-order list is answered with cancels
    next_pos,       \* next Position id to construct
    nam_new,        \* new-order requests in flight: position id -> count
    nam_cancel,     \* cancel requests in flight: set of [key, pos]
    xorders,        \* the exchange's orders: set of [id, pos, st, acked]
    tallies,        \* buys / sells of checkBuySellCount while its loop runs
    waves,          \* the request queues of the transport adapter (WavesREST)
    last            \* what the last event did (for stating the claims)

vars == <<build, info, now, positions, positions_queued, positions_active,
          positions_by_number, positions_freed, running, position_index, order_prices, highest_buy,
          lowest_sell, diverge_converge, diverging_converging,
          order_grace_times, is_running_cancelall, next_pos, nam_new,
          nam_cancel, xorders, tallies, waves, last>>

----------------------------------------------------------------------------
(* Helpers on sequences, sets and bags *)

Range(q) == {q[i] : i \in DOMAIN q}

SeqMin(q) == CHOOSE x \in Range(q) : \A y \in Range(q) : x <= y
SeqMax(q) == CHOOSE x \in Range(q) : \A y \in Range(q) : x >= y

\* QVector::removeOne on a bag: withdraw one occurrence if there is one
BagRemoveOne(b, x) == IF BagIn(x, b) THEN b (-) SetToBag({x}) ELSE b
BagAppend(b, x) == b (+) SetToBag({x})

RECURSIVE BagRemoveSeq(_, _)
BagRemoveSeq(b, q) ==
    IF q = <<>> THEN b ELSE BagRemoveSeq(BagRemoveOne(b, Head(q)), Tail(q))

RECURSIVE BagAppendSeq(_, _)
BagAppendSeq(b, q) ==
    IF q = <<>> THEN b ELSE BagAppendSeq(BagAppend(b, Head(q)), Tail(q))

\* std::sort ascending of a set of integers
RECURSIVE SortAsc(_)
SortAsc(S) ==
    IF S = {} THEN <<>>
    ELSE LET m == CHOOSE x \in S : \A y \in S : x <= y
         IN <<m>> \o SortAsc(S \ {m})

RECURSIVE SortDesc(_)
SortDesc(S) ==
    IF S = {} THEN <<>>
    ELSE LET m == CHOOSE x \in S : \A y \in S : x >= y
         IN <<m>> \o SortDesc(S \ {m})

RemoveFirst(q, x) ==
    IF x \notin Range(q) THEN q
    ELSE LET i == CHOOSE j \in DOMAIN q : q[j] = x /\ \A k \in 1..(j-1) : q[k] # x
         IN SubSeq(q, 1, i-1) \o SubSeq(q, i+1, Len(q))

\* slot indices are 0-based in the program, sequences 1-based here
SlotAt(index, idx) == index[idx + 1]
HasSlot(index, idx) == idx >= 0 /\ idx < Len(index)

----------------------------------------------------------------------------
(* The engine state as one record, so that handlers compose *)

Cur == [ build |-> build, info |-> info, now |-> now, pos |-> positions,
         queued |-> positions_queued, active |-> positions_active,
         by_number |-> positions_by_number, freed |-> positions_freed,
         alive |-> running, ub |-> 0, index |-> position_index,
         prices |-> order_prices, hi_buy |-> highest_buy,
         lo_sell |-> lowest_sell, dc |-> diverge_converge,
         dcing |-> diverging_converging, grace |-> order_grace_times,
         cancelall |-> is_running_cancelall,
         next_pos |-> next_pos,
         nam_new |-> nam_new, nam_cancel |-> nam_cancel,
         ok |-> TRUE, added |-> <<>>, ret |-> 0, first |-> 0 ]

\* QSet iteration order is unspecified: the position in s.first comes first,
\* the others follow by id
Least(c) == CHOOSE id \in c : \A o \in c : id <= o
First(s, c) == IF s.first \in c THEN s.first ELSE Least(c)
InOrder(s, c) ==
    IF s.first \in c THEN <<s.first>> \o SortAsc(c \ {s.first}) ELSE SortAsc(c)

\* QMap::insert
MapInsert(f, k, v) == [x \in (DOMAIN f) \cup {k} |-> IF x = k THEN v ELSE f[x]]
\* QMap::remove
MapRemove(f, k) == [x \in (DOMAIN f) \ {k} |-> f[x]]

----------------------------------------------------------------------------
(* PositionData and Position (declared outside src/daemon) *)

PositionData(buy, sell, size, alt) ==
    [buy_price |-> buy, sell_price |-> sell, order_size |-> size,
     alternate_size |-> alt, fill_count |-> 0]

\* QVector::value( idx ): a default-constructed (blank) slot when out of range
SlotValue(index, idx) ==
    IF HasSlot(index, idx) THEN SlotAt(index, idx) ELSE PositionData(0, 0, 0, 0)

\* each fill advances fill_count and, if the slot has an alternate size,
\* swaps the size used next
resizeByAlternateSize(slot) ==
    IF slot.alternate_size > 0
    THEN [slot EXCEPT !.fill_count = @ + 1,
                      !.order_size = slot.alternate_size,
                      !.alternate_size = slot.order_size]
    ELSE [slot EXCEPT !.fill_count = @ + 1]

RECURSIVE SumSizes(_, _)
SumSizes(index, q) ==
    IF q = <<>> THEN 0
    ELSE SlotValue(index, Head(q)).order_size + SumSizes(index, Tail(q))

\* Position::Position: a landmark takes its prices from the slot of its lowest
\* index and the sum of the sizes of its slots; a blank slot leaves it invalid
Position(s, side, buy, sell, size, indices, landmark) ==
    LET lo == SlotValue(s.index, SeqMin(indices))
        whole == \A i \in Range(indices) : HasSlot(s.index, i)
        b == IF landmark THEN (IF whole THEN lo.buy_price ELSE 0) ELSE buy
        a == IF landmark THEN (IF whole THEN lo.sell_price ELSE 0) ELSE sell
        z == IF landmark THEN (IF whole THEN SumSizes(s.index, indices) ELSE 0)
             ELSE size
    IN [ side |-> side, market_indices |-> indices, is_landmark |-> landmark,
         is_onetime |-> FALSE,
         buy_price |-> b, sell_price |-> a,
         buy_price_original |-> b, sell_price_original |-> a,
         price |-> IF side = SIDE_BUY THEN b ELSE a,
         btc_amount |-> z, order_number |-> <<>>,
         is_cancelling |-> FALSE, cancel_reason |-> CANCELLING_DEFAULT,
         is_slippage |-> FALSE, price_reset_count |-> 0,
         is_new_hilo_order |-> FALSE,
         order_request_time |-> 0, order_set_time |-> 0,
         order_cancel_time |-> 0 ]

\* Position::applyOffset with no market offset or sentiment configured
applyOffset(p) ==
    [p EXCEPT !.price = IF p.side = SIDE_BUY THEN p.buy_price ELSE p.sell_price]

\* Position::flip
flip(p) ==
    [p EXCEPT !.side = IF p.side = SIDE_BUY THEN SIDE_SELL ELSE SIDE_BUY]

getLowestMarketIndex(p) == SeqMin(p.market_indices)
getHighestMarketIndex(p) == SeqMax(p.market_indices)

----------------------------------------------------------------------------
(* Engine::tryMoveOrder *)

\* the buy ratchet without the stop below the lowest sell
RECURSIVE RatchetUpToOriginal(_, _, _)
RatchetUpToOriginal(v, lo_sell, orig) ==
    IF v >= price_ticksize /\ v < orig
    THEN RatchetUpToOriginal(v + price_ticksize, lo_sell, orig) ELSE v

RECURSIVE RatchetUp(_, _, _)
RatchetUp(v, lo_sell, orig) ==
    IF v >= price_ticksize /\ v < lo_sell - price_ticksize /\ v < orig
    THEN RatchetUp(v + price_ticksize, lo_sell, orig) ELSE v

RECURSIVE RatchetDown(_, _, _)
RatchetDown(v, hi_buy, orig) ==
    IF v > price_ticksize * 2 /\ v > hi_buy + price_ticksize /\ v > orig
    THEN RatchetDown(v - price_ticksize, hi_buy, orig) ELSE v

\* returns whether the order moved, and the position with its new side price
tryMoveOrder(s, p) ==
    IF s.hi_buy <= 0 \/ s.lo_sell <= 0 THEN [moved |-> FALSE, pos |-> p]
    ELSE IF p.side = SIDE_BUY
    THEN IF p.buy_price >= s.lo_sell /\ s.lo_sell > price_ticksize
         THEN [moved |-> TRUE,
               pos |-> [p EXCEPT !.buy_price = s.lo_sell - price_ticksize,
                                 !.is_slippage = TRUE]]
         ELSE LET nb == RatchetUp(p.buy_price, s.lo_sell, p.buy_price_original)
              IN IF nb # p.price /\ nb > 0 /\ nb <= p.buy_price_original
                    /\ nb # p.buy_price /\ nb < s.lo_sell
                 THEN [moved |-> TRUE,
                       pos |-> [p EXCEPT !.buy_price = nb, !.is_slippage = TRUE]]
                 ELSE [moved |-> FALSE, pos |-> p]
    ELSE IF p.sell_price <= s.hi_buy
         THEN [moved |-> TRUE,
               pos |-> [p EXCEPT !.sell_price = s.hi_buy + price_ticksize,
                                 !.is_slippage = TRUE]]
         ELSE LET ns == RatchetDown(p.sell_price, s.hi_buy, p.sell_price_original)
              IN IF ns # p.price /\ ns > price_ticksize
                    /\ ns >= p.sell_price_original
                    /\ ns # p.sell_price /\ ns > s.hi_buy
                 THEN [moved |-> TRUE,
                       pos |-> [p EXCEPT !.sell_price = ns, !.is_slippage = TRUE]]
                 ELSE [moved |-> FALSE, pos |-> p]

----------------------------------------------------------------------------
(* The position store *)

isPosition(s, id) == id \in DOMAIN s.pos
isQueuedPosition(s, id) == id \in s.queued
isActivePosition(s, id) == id \in s.active
isPositionOrderID(s, key) == key \in DOMAIN s.by_number

\* the groups of diverge_converge whose key holds the position
GroupsOf(s, id) == {g \in s.dc : id \in Range(g.positions)}

\* Engine::removeFromDC
removeFromDC(s, id) ==
    LET gs == GroupsOf(s, id)
        g == CHOOSE x \in gs : TRUE
    IN [s EXCEPT !.dc = IF gs = {} THEN @ ELSE @ \ {g},
                 !.dcing = BagRemoveSeq(@, s.pos[id].market_indices)]

\* the members of a Position that fillNQ and flipPosition read
FillView(p) ==
    [side |-> p.side, market_indices |-> p.market_indices,
     is_landmark |-> p.is_landmark, is_onetime |-> p.is_onetime]

\* delete pos: the object is freed; an entry of positions_by_number that
\* still holds the pointer dangles
FreeObject(s, id, p) ==
    IF \E k \in DOMAIN s.by_number : s.by_number[k] = id
    THEN [s EXCEPT !.freed = MapInsert(@, id, FillView(p))]
    ELSE s

\* the part of deletePosition after its guard
deletePositionMeat(s, id) ==
    FreeObject(
        [removeFromDC(s, id) EXCEPT
            !.nam_new = [x \in DOMAIN @ \ {id} |-> @[x]],
            !.nam_cancel = {r \in @ : r.pos # id},
            !.active = @ \ {id},
            !.queued = @ \ {id},
            !.pos = [x \in DOMAIN @ \ {id} |-> @[x]],
            !.by_number = MapRemove(@, s.pos[id].order_number),
            !.prices = BagRemoveOne(@, s.pos[id].price)],
        id, s.pos[id])

\* Engine::deletePosition
deletePosition(s, id) ==
    IF id \notin s.active /\ id \notin s.queued THEN s
    ELSE deletePositionMeat(s, id)

\* the adapter's sendCancel( order_number, pos ): flags the position and puts
\* a cancel request for the order number on the wire
sendCancel(s, key, id) ==
    [s EXCEPT !.pos[id].is_cancelling = TRUE,
              !.pos[id].order_cancel_time = s.now,
              !.nam_cancel = @ \cup {[key |-> key, pos |-> id]}]

\* Engine::cancelOrder
cancelOrder(s, id, cancel_reason) ==
    IF ~isPosition(s, id) THEN s
    ELSE LET s1 == [s EXCEPT !.pos[id].cancel_reason = cancel_reason]
         IN IF isQueuedPosition(s1, id)
            THEN [s1 EXCEPT !.pos[id].is_cancelling = TRUE,
                            !.pos[id].order_cancel_time = 1]
            ELSE sendCancel(s1, s1.pos[id].order_number, id)

\* Engine::is_testing: set by the settings of a test run only
is_testing(s) == "is_testing" \in DOMAIN s.info /\ s.info.is_testing

\* the id as setOrderMeat stores it in the position
StoredOrderNumber(b, order_number) ==
    IF b = "BINANCE" THEN <<MarketTok>> \o order_number ELSE order_number

\* the same in a run: a test run stores the id as it is given
StoredNumber(s, order_number) ==
    IF is_testing(s) THEN order_number
    ELSE StoredOrderNumber(s.build, order_number)

\* setOrderMeat without positions_queued.remove( pos )
setOrderMeatKeepsQueued(s, id, order_number) ==
    IF order_number = <<>> THEN s
    ELSE LET s1 == [s EXCEPT
                 !.pos[id].order_set_time = s.now,
                 !.pos[id].is_new_hilo_order = FALSE,
                 !.active = @ \cup {id},
                 !.by_number = MapInsert(@, order_number, id),
                 !.pos[id].order_number = StoredNumber(s, order_number)]
         IN IF s1.pos[id].is_cancelling
               /\ s1.pos[id].order_cancel_time < s.now - cancel_timeout
            THEN cancelOrder(s1, id, s1.pos[id].cancel_reason)
            ELSE s1

\* setOrderMeat without the cancel of a position cancelled while queued
setOrderMeatForgetsCancel(s, id, order_number) ==
    IF order_number = <<>> THEN s
    ELSE [s EXCEPT
             !.pos[id].order_set_time = s.now,
             !.pos[id].is_new_hilo_order = FALSE,
             !.active = @ \cup {id},
             !.queued = @ \ {id},
             !.by_number = MapInsert(@, order_number, id),
             !.pos[id].order_number = StoredNumber(s, order_number)]

\* Engine::setOrderMeat
setOrderMeat(s, id, order_number) ==
    IF order_number = <<>> THEN s
    ELSE LET s1 == [s EXCEPT
                 !.pos[id].order_set_time = s.now,
                 !.pos[id].is_new_hilo_order = FALSE,
                 !.queued = @ \ {id},
                 !.active = @ \cup {id},
                 !.by_number = MapInsert(@, order_number, id),
                 !.pos[id].order_number = StoredNumber(s, order_number)]
         IN IF s1.pos[id].is_cancelling
               /\ s1.pos[id].order_cancel_time < s.now - cancel_timeout
            THEN cancelOrder(s1, id, s1.pos[id].cancel_reason)
            ELSE s1

\* the adapter's sendBuySell: a new-order request for the position goes out
sendBuySell(s, id) ==
    [s EXCEPT !.pos[id].order_request_time = s.now,
              !.nam_new = IF id \in DOMAIN @ THEN [@ EXCEPT ![id] = @ + 1]
                          ELSE MapInsert(@, id, 1)]

\* Engine::addPosition for the ping-pong order types "active" and "ghost";
\* a blank price is 0.  No PERCENT_PRICE filter is configured for the market
\* (price_min_mul and price_max_mul are zero), so that check passes
addPosition(s, side, buy, sell, size, alt, type, indices, landmark) ==
    LET fail == [s EXCEPT !.ret = 0]
    IN IF type # "active" /\ type # "ghost" THEN fail
       ELSE IF buy = 0 \/ sell = 0 THEN fail
       ELSE IF side # SIDE_SELL /\ side # SIDE_BUY THEN fail
       ELSE IF sell <= buy \/ buy <= 0 \/ sell <= 0 THEN fail
       ELSE
       LET idxs == IF indices = <<>> THEN <<Len(s.index)>> ELSE indices
           s1 == IF indices = <<>>
                 THEN [s EXCEPT !.index = Append(@, PositionData(buy, sell, size, alt)),
                                !.ok = @ /\ Len(s.index) < MaxSlots]
                 ELSE s
       IN IF type # "active" THEN [s1 EXCEPT !.ret = 0]
          ELSE
          LET p0 == Position(s1, side, buy, sell, size, idxs, landmark)
          IN IF p0.price = 0 \/ p0.btc_amount <= 0 THEN [s1 EXCEPT !.ret = 0]
             ELSE
             LET mv == tryMoveOrder(s1, p0)
                 p1 == IF mv.moved THEN applyOffset(mv.pos) ELSE p0
                 id == s1.next_pos
                 s2 == [s1 EXCEPT
                          !.pos = MapInsert(@, id, p1),
                          !.queued = @ \cup {id},
                          !.prices = BagAppend(@, p1.price),
                          !.next_pos = @ + 1,
                          !.added = Append(@, id),
                          !.ret = id,
                          !.ok = @ /\ id <= MaxCreated]
             IN IF is_testing(s)
                THEN [setOrderMeat(s2, id, <<MarketTok, SeqMin(idxs)>>)
                        EXCEPT !.ret = id]
                ELSE sendBuySell(s2, id)

\* addLandmarkPositionFor with the landmark argument of addPosition false
addLandmarkPositionForAsNormal(s, p) ==
    addPosition(s, p.side, 1, 2, 0, 0, "active", p.market_indices, FALSE)

\* Engine::addLandmarkPositionFor: addPosition with dummy prices and size
addLandmarkPositionFor(s, p) ==
    addPosition(s, p.side, 1, 2, 0, 0, "active", p.market_indices, TRUE)

----------------------------------------------------------------------------
(* Fills *)

\* flipPosition without pos->flip()
flipPositionKeepsSide(s, id) ==
    IF s.pos[id].is_onetime THEN s
    ELSE LET p == s.pos[id]
             new_data == SlotValue(s.index, p.market_indices[1])
         IN IF p.is_landmark THEN addLandmarkPositionFor(s, p)
            ELSE addPosition(s, p.side, new_data.buy_price, new_data.sell_price,
                             new_data.order_size, 0, "active",
                             p.market_indices, FALSE)

\* Engine::flipPosition
flipPosition(s, id) ==
    IF s.pos[id].is_onetime THEN s
    ELSE LET s1 == [s EXCEPT !.pos[id] = flip(@)]
             p == s1.pos[id]
             new_data == SlotValue(s1.index, p.market_indices[1])
         IN IF p.is_landmark THEN addLandmarkPositionFor(s1, p)
            ELSE addPosition(s1, p.side, new_data.buy_price, new_data.sell_price,
                             new_data.order_size, 0, "active",
                             p.market_indices, FALSE)

\* the loop of fillNQ over pos->market_indices
RECURSIVE ResizeSlots(_, _)
ResizeSlots(index, q) ==
    IF q = <<>> THEN index
    ELSE LET idx == Head(q)
             nxt == IF Len(index) <= idx THEN index
                    ELSE [index EXCEPT ![idx + 1] = resizeByAlternateSize(@)]
         IN ResizeSlots(nxt, Tail(q))

\* Engine::fillNQ from "update stats" on, for a live position
FillPosition(s, id) ==
    deletePosition(
        flipPosition(
            [s EXCEPT !.index = ResizeSlots(@, s.pos[id].market_indices)], id),
        id)

\* the object is back in the freed memory, as flipPosition left it
Unmap(s, id) ==
    [s EXCEPT !.freed[id] = s.pos[id],
              !.pos = [x \in DOMAIN @ \ {id} |-> @[x]]]

\* the same through a dangling pointer whose memory still holds the deleted
\* position: deletePosition finds it neither active nor queued and returns
FillFreed(s, id) ==
    Unmap(flipPosition(
              [s EXCEPT !.pos = MapInsert(@, id, s.freed[id]),
                        !.index = ResizeSlots(@, s.freed[id].market_indices)],
              id),
          id)

\* what the dereference of a dangling Position pointer may do: -1 the process
\* crashes, 0 the freed memory still holds the position, q > 0 the memory was
\* given to the position q constructed later
UBOutcomes(s, id) == {-1, 0} \cup {q \in DOMAIN s.pos : q > id}

\* Engine::fillNQ with a valid fill_type
fillNQ(s, order_id) ==
    IF order_id = <<>> \/ ~isPositionOrderID(s, order_id) THEN s
    ELSE IF s.by_number[order_id] \in DOMAIN s.pos
    THEN FillPosition(s, s.by_number[order_id])
    ELSE IF s.ub \notin UBOutcomes(s, s.by_number[order_id])
    THEN [s EXCEPT !.ok = FALSE]
    ELSE IF s.ub = -1 THEN [s EXCEPT !.alive = FALSE]
    ELSE IF s.ub = 0 THEN FillFreed(s, s.by_number[order_id])
    ELSE FillPosition(s, s.ub)

\* the QMap key of processFilledOrders, buy_price / sell_price, compared
\* without dividing
RatioLess(p, q) == p.buy_price * q.sell_price < q.buy_price * p.sell_price
RatioEq(p, q) == p.buy_price * q.sell_price = q.buy_price * p.sell_price

RECURSIVE FillEach(_, _)
FillEach(s, keys) ==
    IF keys = <<>> THEN s ELSE FillEach(fillNQ(s, Head(keys)), Tail(keys))

\* the positions left in the QMap after inserting the vector in order: a
\* later position with an equal key replaces the earlier one
SortedSurvivors(s, filled) ==
    {i \in DOMAIN filled :
        \A j \in DOMAIN filled :
            j > i => ~RatioEq(s.pos[filled[i]], s.pos[filled[j]])}

RECURSIVE SortByRatio(_, _, _)
SortByRatio(s, filled, left) ==
    IF left = {} THEN <<>>
    ELSE LET m == CHOOSE i \in left :
                    \A j \in left : ~RatioLess(s.pos[filled[j]], s.pos[filled[i]])
         IN <<s.pos[filled[m]].order_number>>
            \o SortByRatio(s, filled, left \ {m})

\* Engine::processFilledOrders: filled is the vector of positions
processFilledOrders(s, filled) ==
    FillEach(s, SortByRatio(s, filled, SortedSurvivors(s, filled)))

----------------------------------------------------------------------------
(* Cancel acknowledgements *)

\* the diverge loop leaving after its first addPosition
DivergeIntoFirstOnly(s, side, new_indices) ==
    IF new_indices = <<>> THEN s
    ELSE LET s1 == [s EXCEPT !.dcing = BagRemoveSeq(@, new_indices)]
             data == SlotValue(s1.index, Head(new_indices))
         IN IF Len(s1.index) = 0 THEN s1
            ELSE addPosition(s1, side, data.buy_price, data.sell_price,
                             data.order_size, 0, "active",
                             <<Head(new_indices)>>, FALSE)

\* the loop of cancelOrderMeatDCOrder over new_indices, for a diverge
RECURSIVE DivergeInto(_, _, _)
DivergeInto(s, side, new_indices) ==
    IF new_indices = <<>> THEN s
    ELSE LET idx == Head(new_indices)
             s1 == [s EXCEPT !.dcing = BagRemoveOne(@, idx)]
             data == SlotValue(s1.index, idx)
             s2 == IF Len(s1.index) = 0 THEN s1
                   ELSE addPosition(s1, side, data.buy_price, data.sell_price,
                                    data.order_size, 0, "active", <<idx>>, FALSE)
         IN DivergeInto(s2, side, Tail(new_indices))

\* Engine::cancelOrderMeatDCOrder
cancelOrderMeatDCOrder(s, id) ==
    LET gs == GroupsOf(s, id)
    IN IF gs = {} THEN s
       ELSE
       LET g == CHOOSE x \in gs : TRUE
           s1 == [s EXCEPT !.dc = @ \ {g}]
           cancelling_positions == RemoveFirst(g.positions, id)
       IN IF cancelling_positions = <<>>
          THEN IF g.landmark
               THEN LET s2 == [s1 EXCEPT
                                 !.dcing = BagRemoveSeq(@, g.indices),
                                 !.pos[id].market_indices = g.indices]
                    IN addLandmarkPositionFor(s2, s2.pos[id])
               ELSE DivergeInto(s1, s1.pos[id].side, g.indices)
          ELSE [s1 EXCEPT !.dc =
                  {x \in @ : x.positions # cancelling_positions}
                  \cup {[positions |-> cancelling_positions,
                         landmark |-> g.landmark, indices |-> g.indices]}]

\* processCancelledOrder without the flip of a short/long cancel
processCancelledOrderNoFlip(s, id) ==
    LET p == s.pos[id]
    IN IF p.cancel_reason = CANCELLING_FOR_DC
       THEN deletePosition(cancelOrderMeatDCOrder(s, id), id)
       ELSE deletePosition(s, id)

\* Engine::processCancelledOrder
processCancelledOrder(s, id) ==
    LET p == s.pos[id]
    IN IF p.is_slippage /\ p.cancel_reason = CANCELLING_FOR_SLIPPAGE_RESET
       THEN IF p.is_landmark
            THEN deletePosition(addLandmarkPositionFor(s, p), id)
            ELSE LET new_pos == SlotValue(s.index, p.market_indices[1])
                 IN deletePosition(
                        addPosition(s, p.side, new_pos.buy_price,
                                    new_pos.sell_price, new_pos.order_size, 0,
                                    "active", p.market_indices, FALSE), id)
       ELSE LET s1 == IF p.cancel_reason = CANCELLING_FOR_DC
                      THEN cancelOrderMeatDCOrder(s, id)
                      ELSE IF p.cancel_reason = CANCELLING_FOR_SHORTLONG
                      THEN flipPosition(s, id)
                      ELSE s
            IN deletePosition(s1, id)

----------------------------------------------------------------------------
(* Automatic band maintenance *)

\* the positions getPositionByIndex may return: QSet order is unspecified
PositionsByIndex(s, idx) ==
    {id \in DOMAIN s.pos : idx \in Range(s.pos[id].market_indices)}

\* Engine::getPositionByIndex as a test for "some position holds idx"
getPositionByIndex(s, idx) == PositionsByIndex(s, idx) # {}

\* Engine::isIndexDivergingConverging
isIndexDivergingConverging(s, idx) == BagIn(idx, s.dcing)

IndexTaken(s, idx) ==
    getPositionByIndex(s, idx) \/ isIndexDivergingConverging(s, idx)

RECURSIVE CountDown(_, _)
CountDown(s, i) == IF IndexTaken(s, i) THEN CountDown(s, i - 1) ELSE i

RECURSIVE CountUp(_, _)
CountUp(s, i) == IF IndexTaken(s, i) THEN CountUp(s, i + 1) ELSE i

\* the landmark loop of setNextLowest
RECURSIVE RunDown(_, _)
RunDown(s, indices) ==
    IF Len(indices) >= order_dc THEN indices
    ELSE LET new_index == indices[Len(indices)] - 1
         IN IF new_index < 0 THEN indices
            ELSE IF IndexTaken(s, new_index) THEN <<indices[1]>>
            ELSE RunDown(s, Append(indices, new_index))

\* the landmark loop of setNextHighest
RECURSIVE RunUp(_, _)
RunUp(s, indices) ==
    IF Len(indices) >= order_dc THEN indices
    ELSE LET new_index == indices[Len(indices)] + 1
         IN IF new_index >= Len(s.index) THEN indices
            ELSE IF IndexTaken(s, new_index) THEN <<indices[1]>>
            ELSE RunUp(s, Append(indices, new_index))

PingPongs(s) == {id \in DOMAIN s.pos : ~s.pos[id].is_onetime}

\* pos->is_new_hilo_order = true on the position addPosition returned
MarkNewHiLo(s) ==
    IF s.ret = 0 THEN s ELSE [s EXCEPT !.pos[s.ret].is_new_hilo_order = TRUE]

\* the tail shared by setNextLowest and setNextHighest
SetNextAt(s, side, landmark, indices) ==
    IF ~landmark /\ Len(indices) > 1 THEN s
    ELSE IF indices[1] >= Len(s.index) THEN s
    ELSE LET data == SlotValue(s.index, indices[1])
         IN MarkNewHiLo(addPosition(s, side, data.buy_price, data.sell_price,
                                    data.order_size, 0, "active", indices,
                                    landmark))

\* Engine::setNextLowest
setNextLowest(s, side, landmark) ==
    IF PingPongs(s) = {} THEN s
    ELSE
    LET lowest == CHOOSE x \in {getLowestMarketIndex(s.pos[id]) : id \in PingPongs(s)} :
                     \A id \in PingPongs(s) : x <= getLowestMarketIndex(s.pos[id])
        first == lowest - 1
    IN IF first < 0 THEN s
       ELSE LET start == CountDown(s, first)
            IN IF start < 0 THEN s
               ELSE LET indices == IF landmark THEN RunDown(s, <<start>>)
                                   ELSE <<start>>
                    IN IF landmark /\ Len(indices) # order_dc
                          /\ 0 \notin Range(indices)
                       THEN s
                       ELSE SetNextAt(s, side, landmark, indices)

\* Engine::setNextHighest
setNextHighest(s, side, landmark) ==
    LET highest == IF PingPongs(s) = {} THEN -1
                   ELSE CHOOSE x \in {getHighestMarketIndex(s.pos[id]) : id \in PingPongs(s)} :
                          \A id \in PingPongs(s) : x >= getHighestMarketIndex(s.pos[id])
        first == highest + 1
    IN IF first < 1 THEN s
       ELSE LET start == CountUp(s, first)
            IN IF start >= Len(s.index) THEN s
               ELSE LET indices == IF landmark THEN RunUp(s, <<start>>)
                                   ELSE <<start>>
                    IN IF landmark /\ Len(indices) # order_dc
                          /\ (Len(s.index) - 1) \notin Range(indices)
                       THEN s
                       ELSE SetNextAt(s, side, landmark, indices)

\* Engine::getLowestActivePingPong: the candidates with the lowest index
getLowestActivePingPong(s) ==
    LET c == {id \in PingPongs(s) : ~s.pos[id].is_cancelling}
    IN {id \in c : \A o \in c :
            getLowestMarketIndex(s.pos[id]) <= getLowestMarketIndex(s.pos[o])}

\* Engine::getHighestActivePingPong; an index below 0 is never the highest
getHighestActivePingPong(s) ==
    LET c == {id \in PingPongs(s) : ~s.pos[id].is_cancelling}
    IN {id \in c : \A o \in c :
            getHighestMarketIndex(s.pos[id]) >= getHighestMarketIndex(s.pos[o])}

\* Engine::cancelLowest; among equals the first in QSet order
cancelLowest(s) ==
    LET c == getLowestActivePingPong(s)
    IN IF c = {} THEN s
       ELSE cancelOrder(s, First(s, c), CANCELLING_LOWEST)

\* Engine::cancelHighest
cancelHighest(s) ==
    LET c == getHighestActivePingPong(s)
    IN IF c = {} THEN s
       ELSE cancelOrder(s, First(s, c), CANCELLING_HIGHEST)

\* Engine::getHighestActiveBuyPosByPrice: the set buys that are not being
\* cancelled, at the highest buy_price; one-time orders are among them
getHighestActiveBuyPosByPrice(s) ==
    LET c == {id \in s.active : /\ s.pos[id].side = SIDE_BUY
                                /\ ~s.pos[id].is_cancelling
                                /\ s.pos[id].order_number # <<>>}
    IN {id \in c : \A o \in c : s.pos[id].buy_price >= s.pos[o].buy_price}

\* Engine::getLowestActiveSellPosByPrice
getLowestActiveSellPosByPrice(s) ==
    LET c == {id \in s.active : /\ s.pos[id].side = SIDE_SELL
                                /\ ~s.pos[id].is_cancelling
                                /\ s.pos[id].order_number # <<>>}
    IN {id \in c : \A o \in c : s.pos[id].sell_price <= s.pos[o].sell_price}

\* Engine::flipHiBuyPrice and Engine::flipLoSellPrice, given what the getter
\* found; among equals the first in QSet order
FlipFound(s, c) ==
    IF c = {} \/ ~isActivePosition(s, First(s, c)) THEN s
    ELSE cancelOrder(s, First(s, c), CANCELLING_FOR_SHORTLONG)

flipHiBuyPrice(s) == FlipFound(s, getHighestActiveBuyPosByPrice(s))
flipLoSellPrice(s) == FlipFound(s, getLowestActiveSellPosByPrice(s))

RECURSIVE CancelLowestTimes(_, _)
CancelLowestTimes(s, n) ==
    IF n <= 0 THEN s ELSE CancelLowestTimes(cancelLowest(s), n - 1)

RECURSIVE CancelHighestTimes(_, _)
CancelHighestTimes(s, n) ==
    IF n <= 0 THEN s ELSE CancelHighestTimes(cancelHighest(s), n - 1)

\* what one pass of the do-while loop of checkBuySellCount decides from the
\* counts buys[ market ] and sells[ market ]
TooFew(s, n) == (IF n > s.info.order_max THEN s.info.order_max ELSE n)
                    < s.info.order_min
RoomForLandmark(s, n) ==
    LET n1 == IF n > s.info.order_max THEN s.info.order_max ELSE n
    IN /\ ~TooFew(s, n)
       /\ order_dc > 1
       /\ n1 >= s.info.order_min
       /\ n1 < s.info.order_max - s.info.order_landmark_thresh
CountAfter(s, n) ==
    LET n1 == IF n > s.info.order_max THEN s.info.order_max ELSE n
    IN IF TooFew(s, n) \/ RoomForLandmark(s, n) THEN n1 + 1 ELSE n1

SetLowestIf(s, needed, landmark) ==
    IF needed THEN setNextLowest(s, SIDE_BUY, landmark) ELSE s
SetHighestIf(s, needed, landmark) ==
    IF needed THEN setNextHighest(s, SIDE_SELL, landmark) ELSE s

\* one pass of the loop: the buy side, then the sell side
BuySellPass(s, buys, sells) ==
    SetHighestIf(
        CancelHighestTimes(
            SetLowestIf(CancelLowestTimes(s, buys - s.info.order_max),
                        TooFew(s, buys) \/ RoomForLandmark(s, buys),
                        RoomForLandmark(s, buys)),
            sells - s.info.order_max),
        TooFew(s, sells) \/ RoomForLandmark(s, sells),
        RoomForLandmark(s, sells))

\* the do-while loop of checkBuySellCount, with buys[ market ] and
\* sells[ market ] as arguments
RECURSIVE BuySellLoop(_, _, _)
BuySellLoop(s, buys, sells) ==
    IF Len(s.index) = 0 \/ s.info.order_min <= 0 \/ s.info.order_max <= 0 THEN s
    ELSE IF TooFew(s, buys) \/ RoomForLandmark(s, buys)
            \/ TooFew(s, sells) \/ RoomForLandmark(s, sells)
    THEN BuySellLoop(BuySellPass(s, buys, sells),
                     CountAfter(s, buys), CountAfter(s, sells))
    ELSE BuySellPass(s, buys, sells)

\* the adapter with nothing queued, nothing sent and no order to query
NoWaves ==
    [nam_queue |-> <<>>, nam_queue_sent |-> EmptyBag,
     cancelling_orders_to_query |-> <<>>, last_cancelling_index_checked |-> 0,
     orderbook_update_request_time |-> 0]

\* the static maps buys and sells of checkBuySellCount outside of a run
NoTallies == [counting |-> FALSE, buys |-> 0, sells |-> 0]

\* Engine::checkBuySellCount
checkBuySellCount(s) ==
    LET buys == Cardinality({id \in DOMAIN s.pos :
                    s.pos[id].side = SIDE_BUY /\ ~s.pos[id].is_cancelling})
        sells == Cardinality({id \in DOMAIN s.pos :
                    s.pos[id].side = SIDE_SELL /\ ~s.pos[id].is_cancelling})
    IN BuySellLoop(s, buys, sells)

----------------------------------------------------------------------------
(* Diverge / converge *)

should_dc_slippage_orders == FALSE

\* market_hi_buy_idx[ market ]: operator[] yields 0 when there is no buy
market_hi_buy_idx(s) ==
    LET b == {id \in PingPongs(s) : s.pos[id].side = SIDE_BUY}
    IN IF b = {} THEN 0
       ELSE CHOOSE x \in {getHighestMarketIndex(s.pos[id]) : id \in b} :
              \A id \in b : x >= getHighestMarketIndex(s.pos[id])

\* the conditions common to every candidate of onCheckDivergeConverge
DCEligible(s, id, side) ==
    LET p == s.pos[id]
    IN /\ ~p.is_onetime
       /\ order_dc >= 2
       /\ p.side = side
       /\ ~p.is_cancelling
       /\ ~(~should_dc_slippage_orders /\ p.is_slippage)
       /\ p.order_number # <<>>
       /\ ~isIndexDivergingConverging(s, getLowestMarketIndex(p))

\* whether the position is a converge candidate, given the boundary test
ShouldConverge(s, id) ==
    LET p == s.pos[id]
    IN IF p.side = SIDE_BUY
       THEN ~p.is_landmark
            /\ getHighestMarketIndex(p)
                 < (market_hi_buy_idx(s) - s.info.order_landmark_start) - order_dc_nice
       ELSE ~p.is_landmark
            /\ getLowestMarketIndex(p)
                 > (market_hi_buy_idx(s) + 1 + s.info.order_landmark_start) + order_dc_nice

ShouldDiverge(s, id) ==
    LET p == s.pos[id]
    IN IF p.side = SIDE_BUY
       THEN p.is_landmark
            /\ getHighestMarketIndex(p)
                 > market_hi_buy_idx(s) - s.info.order_landmark_start
       ELSE p.is_landmark
            /\ getLowestMarketIndex(p)
                 < market_hi_buy_idx(s) + 1 + s.info.order_landmark_start

\* the second loop of onCheckDivergeConverge over positions_all, for one side:
\* a first index enters a list only if neither list of the side holds it
RECURSIVE DCCandidates(_, _, _, _)
DCCandidates(s, ids, side, acc) ==
    IF ids = <<>> THEN acc
    ELSE LET id == Head(ids)
             first_idx == getLowestMarketIndex(s.pos[id])
             open == DCEligible(s, id, side)
                     /\ first_idx \notin acc.converge
                     /\ first_idx \notin acc.diverge
             nxt == IF open /\ ShouldConverge(s, id)
                    THEN [acc EXCEPT !.converge = @ \cup {first_idx}]
                    ELSE IF open /\ ShouldDiverge(s, id)
                    THEN [acc EXCEPT !.diverge = @ \cup {first_idx}]
                    ELSE acc
         IN DCCandidates(s, Tail(ids), side, nxt)

\* the search of converge for order_dc sequential indices
RECURSIVE FindRun(_, _, _, _)
FindRun(indices, j, new_order, index_offset) ==
    IF j > Len(indices) THEN <<>>
    ELSE IF new_order = <<>> \/ indices[j] = new_order[Len(new_order)] + index_offset
    THEN LET r == Append(new_order, indices[j])
         IN IF Len(r) = order_dc THEN r
            ELSE FindRun(indices, j + 1, r, index_offset)
    ELSE IF Len(indices) > 1 THEN FindRun(Tail(indices), 1, <<>>, index_offset)
    ELSE <<>>

\* the cancel loop of converge: returns the state and the vector of positions
RECURSIVE CancelRun(_, _, _)
CancelRun(s, new_order, cancelled) ==
    IF new_order = <<>> THEN [s |-> s, positions |-> cancelled]
    ELSE LET idx == Head(new_order)
             id == First(s, PositionsByIndex(s, idx))
             s1 == cancelOrder(s, id, CANCELLING_FOR_DC)
             s2 == [s1 EXCEPT !.dcing = BagAppend(@, idx)]
         IN CancelRun(s2, Tail(new_order), Append(cancelled, id))

\* QMap::insert into diverge_converge
InsertGroup(dc, key, landmark, indices) ==
    {x \in dc : x.positions # key}
    \cup {[positions |-> key, landmark |-> landmark, indices |-> indices]}

\* converge walking the sells in ascending order as well
convergeAscending(s, candidates, side) ==
    IF Cardinality(candidates) < order_dc \/ order_dc < 2 THEN s
    ELSE LET indices == SortAsc(candidates)
             new_order == FindRun(indices, 1, <<>>, 1)
         IN IF new_order = <<>> THEN s
            ELSE LET r == CancelRun(s, new_order, <<>>)
                 IN [r.s EXCEPT !.dc = InsertGroup(@, r.positions, TRUE, new_order)]

\* Engine::converge for the one market
converge(s, candidates, side) ==
    IF Cardinality(candidates) < order_dc \/ order_dc < 2 THEN s
    ELSE LET indices == IF side = SIDE_BUY THEN SortAsc(candidates)
                        ELSE SortDesc(candidates)
             new_order == FindRun(indices, 1, <<>>,
                                  IF side = SIDE_BUY THEN 1 ELSE -1)
         IN IF new_order = <<>> THEN s
            ELSE LET r == CancelRun(s, new_order, <<>>)
                 IN [r.s EXCEPT !.dc = InsertGroup(@, r.positions, TRUE, new_order)]

\* Engine::diverge for the one market
diverge(s, candidates) ==
    IF candidates = {} THEN s
    ELSE LET index == SortAsc(candidates)[1]
             id == First(s, PositionsByIndex(s, index))
             s1 == cancelOrder(s, id, CANCELLING_FOR_DC)
             mi == s1.pos[id].market_indices
         IN [s1 EXCEPT !.dcing = BagAppendSeq(@, mi),
                       !.dc = InsertGroup(@, <<id>>, FALSE, mi)]

\* Engine::onCheckDivergeConverge
onCheckDivergeConverge(s) ==
    LET none == [converge |-> {}, diverge |-> {}]
        all == InOrder(s, DOMAIN s.pos)
        buys == DCCandidates(s, all, SIDE_BUY, none)
        sells == DCCandidates(s, all, SIDE_SELL, none)
        s1 == converge(s, buys.converge, SIDE_BUY)
        s2 == converge(s1, sells.converge, SIDE_SELL)
        s3 == diverge(s2, buys.diverge)
    IN diverge(s3, sells.diverge)

----------------------------------------------------------------------------
(* Timed sweep *)

slippage_timeout == 0

\* the loop of onCheckTimeouts over positions_active
RECURSIVE ActiveTimeouts(_, _)
ActiveTimeouts(s, ids) ==
    IF ids = <<>> THEN s
    ELSE LET id == Head(ids)
             p == s.pos[id]
         IN IF p.is_cancelling /\ p.order_set_time > 0 /\ p.order_cancel_time > 0
               /\ p.order_cancel_time < s.now - cancel_timeout
            THEN cancelOrder(s, id, CANCELLING_DEFAULT)
            ELSE IF p.is_slippage /\ ~p.is_cancelling /\ p.order_set_time > 0
                    /\ p.order_set_time < s.now - slippage_timeout
            THEN LET mv == tryMoveOrder(s, p)
                 IN IF mv.moved
                    THEN cancelOrder([s EXCEPT !.pos[id] = mv.pos], id,
                                     CANCELLING_FOR_SLIPPAGE_RESET)
                    ELSE ActiveTimeouts(
                           [s EXCEPT !.pos[id].order_set_time =
                                         s.now - safety_delay_time],
                           Tail(ids))
            ELSE ActiveTimeouts(s, Tail(ids))

\* the queued positions whose request is stale
StaleQueued(s) ==
    {id \in s.queued : /\ s.pos[id].order_set_time = 0
                       /\ s.pos[id].order_request_time > 0
                       /\ s.pos[id].order_request_time < s.now - request_timeout}

\* the sweep of onCheckTimeouts after checkBuySellCount
TimeoutSweep(s) ==
    IF StaleQueued(s) # {}
    THEN sendBuySell(s, First(s, StaleQueued(s)))
    ELSE ActiveTimeouts(s, InOrder(s, s.active))

\* Engine::onCheckTimeouts
onCheckTimeouts(s) == TimeoutSweep(checkBuySellCount(s))

\* Engine::checkBuySellCount while rest->yieldToFlowControl() holds: the
\* first pass works on the buy side and returns at the first flow-control test
\* it comes to
checkBuySellCountYielding(s) ==
    LET buys == Cardinality({id \in DOMAIN s.pos :
                    s.pos[id].side = SIDE_BUY /\ ~s.pos[id].is_cancelling})
    IN IF Len(s.index) = 0 \/ s.info.order_min <= 0 \/ s.info.order_max <= 0
       THEN s
       ELSE IF buys > s.info.order_max THEN cancelLowest(s)
       ELSE SetLowestIf(s, TooFew(s, buys) \/ RoomForLandmark(s, buys),
                        RoomForLandmark(s, buys))

\* Engine::onCheckTimeouts, given what rest->yieldToFlowControl() answers
\* during the call
onCheckTimeoutsFlow(s, yield) ==
    IF yield THEN checkBuySellCountYielding(s) ELSE onCheckTimeouts(s)

\* Engine::onCheckDivergeConverge, given what rest->yieldToFlowControl()
\* answers during the call
onCheckDivergeConvergeFlow(s, yield) ==
    IF yield THEN s ELSE onCheckDivergeConverge(s)

----------------------------------------------------------------------------
(* Local cancel of the market *)

RECURSIVE DeleteEach(_, _)
DeleteEach(s, ids) ==
    IF ids = <<>> THEN s ELSE DeleteEach(deletePosition(s, Head(ids)), Tail(ids))

RECURSIVE CancelEach(_, _)
CancelEach(s, ids) ==
    IF ids = <<>> THEN s
    ELSE CancelEach(cancelOrder(s, Head(ids), CANCELLING_DEFAULT), Tail(ids))

\* Engine::cancelLocal( market )
cancelLocal(s) ==
    LET deleted_positions == InOrder(s, s.queued)
        normal_positions ==
            InOrder(s, {id \in DOMAIN s.pos \ s.queued : ~s.pos[id].is_landmark})
        landmark_positions ==
            InOrder(s, {id \in DOMAIN s.pos \ s.queued : s.pos[id].is_landmark})
        s1 == DeleteEach(s, deleted_positions)
        s2 == CancelEach(s1, normal_positions)
        s3 == CancelEach(s2, landmark_positions)
    IN [s3 EXCEPT !.prices = EmptyBag, !.index = <<>>]

----------------------------------------------------------------------------
(* Ticker *)

\* the fill_details of processTicker; 0 when the prices do not collide
fill_details(p, bid, ask) ==
    IF p.side = SIDE_SELL /\ p.sell_price <= bid THEN 1
    ELSE IF p.side = SIDE_BUY /\ p.buy_price >= ask THEN 2
    ELSE IF p.side = SIDE_SELL /\ p.sell_price < ask THEN 3
    ELSE IF p.side = SIDE_BUY /\ p.buy_price > bid THEN 4
    ELSE 0

\* the selection of processTicker without the safe period for new orders
TickerFilledAtOnce(s, bid, ask, request_time_sent_ms) ==
    {id \in s.active :
        LET p == s.pos[id]
        IN /\ ~(ask <= bid)
           /\ ~(ask <= 0 \/ bid <= 0)
           /\ fill_details(p, bid, ask) > 0
           /\ ~(p.order_cancel_time > 0 \/ p.is_cancelling)}

\* the positions processTicker hands to processFilledOrders
TickerFilled(s, bid, ask, request_time_sent_ms) ==
    {id \in s.active :
        LET p == s.pos[id]
        IN /\ ~(ask <= bid)
           /\ ~(ask <= 0 \/ bid <= 0)
           /\ fill_details(p, bid, ask) > 0
           /\ ~(p.order_set_time > request_time_sent_ms - ticker_safety_delay_time)
           /\ ~(p.order_set_time > s.now - ticker_safety_delay_time)
           /\ ~(p.order_cancel_time > 0 \/ p.is_cancelling)}

\* Engine::processTicker for the one market
processTicker(s, bid, ask, request_time_sent_ms) ==
    LET s1 == IF ask <= 0 \/ bid <= 0 THEN s
              ELSE [s EXCEPT !.hi_buy = bid, !.lo_sell = ask]
    IN IF request_time_sent_ms <= 0 THEN s1
       ELSE processFilledOrders(s1,
                InOrder(s1, TickerFilled(s1, bid, ask, request_time_sent_ms)))

----------------------------------------------------------------------------
(* Post-only slippage *)

should_adjust_hibuy_losell == TRUE
should_slippage_be_calculated == TRUE

\* the ticksize findBetterPrice works with
SlippageTick(s, p) ==
    IF s.build = "BINANCE"
    THEN IF p.price_reset_count > 0
         THEN price_ticksize + price_ticksize * p.price_reset_count
         ELSE price_ticksize
    ELSE 1

\* Engine::findBetterPrice under the setting should_adjust_hibuy_losell
findBetterPriceSet(s, id, adjust_hibuy_losell) ==
    IF ~isPosition(s, id) THEN s
    ELSE
    LET p == s.pos[id]
        is_buy == p.side = SIDE_BUY
        ticksize == SlippageTick(s, p)
        s1 == IF adjust_hibuy_losell /\ is_buy /\ s.lo_sell > 0
                 /\ s.lo_sell > p.buy_price
              THEN [s EXCEPT !.lo_sell = p.buy_price]
              ELSE IF adjust_hibuy_losell /\ ~is_buy /\ s.hi_buy > 0
                      /\ s.hi_buy < p.sell_price
              THEN [s EXCEPT !.hi_buy = p.sell_price]
              ELSE s
        calculated == p.price_reset_count < 1 /\ should_slippage_be_calculated
        p1 == IF is_buy
              THEN [p EXCEPT !.buy_price =
                       IF calculated /\ s1.lo_sell > 0 THEN s1.lo_sell - ticksize
                       ELSE p.buy_price - ticksize]
              ELSE [p EXCEPT !.sell_price =
                       IF calculated /\ s1.hi_buy > 0 THEN s1.hi_buy + ticksize
                       ELSE p.sell_price + ticksize]
        p2 == applyOffset([p1 EXCEPT !.is_slippage = TRUE,
                                     !.price_reset_count = @ + 1])
    IN [s1 EXCEPT !.prices = BagAppend(BagRemoveOne(@, p.price), p2.price),
                  !.pos[id] = p2]

\* Engine::findBetterPrice
findBetterPrice(s, id) == findBetterPriceSet(s, id, should_adjust_hibuy_losell)

----------------------------------------------------------------------------
(* The exchange's open-order list *)

should_clear_stray_orders == TRUE
should_clear_stray_orders_all == FALSE
should_mitigate_blank_orderbook_flash == TRUE
stray_grace_time_limit == 0
\* the age a request must have before a reported order may be matched to it
StrayMatchAge == 0
\* the number of active positions above which a blank list is not believed
BlankFlashActive == 50

\* Coin::ratio( r ) with r in thousandths, truncated to the satoshi
ratio(x, permille) == (x * permille) \div 1000

\* the adapter's sendCancel( order_number ) for an order that is not ours
sendCancelNonLocal(s, key) ==
    [s EXCEPT !.nam_cancel = @ \cup {[key |-> key, pos |-> 0]}]

\* the queued positions a reported order matches
MatchingQueued(s, o) ==
    {id \in s.queued : /\ s.pos[id].side = o.side
                       /\ s.pos[id].price = o.price
                       /\ s.pos[id].btc_amount = o.btc_amount
                       /\ o.btc_amount >= ratio(s.pos[id].btc_amount, 999)
                       /\ o.btc_amount <= ratio(s.pos[id].btc_amount, 1001)}

\* the position getPositionForOrderID yields for cancelOrder in cancel-all
\* mode; through a dangling entry it is no position of the store, unless the
\* freed memory was given to the newer position s.ub
OwnerOf(s, key) ==
    IF s.by_number[key] \in DOMAIN s.pos THEN s.by_number[key]
    ELSE IF s.ub \in DOMAIN s.pos /\ s.ub > s.by_number[key] THEN s.ub
    ELSE 0

\* the stray-order part with an unknown id taken for stray at first sight
StrayCheckAtFirstSight(s, o) ==
    IF ~(should_clear_stray_orders /\ ~isPositionOrderID(s, o.order_number))
    THEN [s |-> s, stray |-> FALSE]
    ELSE IF ~should_clear_stray_orders_all /\ ~BagIn(o.price, s.prices)
    THEN [s |-> s, stray |-> FALSE]
    ELSE [s |-> [s EXCEPT !.grace = MapInsert(@, o.order_number, s.now)],
          stray |-> TRUE]

\* the stray-order part of the first loop of processOpenOrders, for one order
StrayCheck(s, o) ==
    IF ~(should_clear_stray_orders /\ ~isPositionOrderID(s, o.order_number))
    THEN [s |-> s, stray |-> FALSE]
    ELSE IF ~should_clear_stray_orders_all /\ ~BagIn(o.price, s.prices)
    THEN [s |-> s, stray |-> FALSE]
    ELSE IF o.order_number \notin DOMAIN s.grace
    THEN IF MatchingQueued(s, o) # {}
            /\ s.pos[First(s, MatchingQueued(s, o))].order_request_time
                  < s.now - StrayMatchAge
         THEN [s |-> setOrderMeat(s, First(s, MatchingQueued(s, o)),
                                  o.order_number),
               stray |-> FALSE]
         ELSE [s |-> [s EXCEPT !.grace = MapInsert(@, o.order_number, s.now)],
               stray |-> FALSE]
    ELSE [s |-> s,
          stray |-> s.now - s.grace[o.order_number] > stray_grace_time_limit]

\* stray_orders after the round of the loop for order o
ScanOne(r, o, stray) ==
    [s |-> r.s, stray |-> IF r.stray THEN Append(stray, o.order_number) ELSE stray]

\* the cancel-all part of the first loop, for one order: FALSE in done means
\* the loop goes on to the stray-order part
CancelAllCheck(s, o) ==
    IF ~s.cancelall THEN [s |-> s, done |-> FALSE]
    ELSE IF ~isPositionOrderID(s, o.order_number)
    THEN [s |-> sendCancelNonLocal(s, o.order_number), done |-> TRUE]
    ELSE [s |-> cancelOrder(s, OwnerOf(s, o.order_number), CANCELLING_FOR_USER),
          done |-> FALSE]

\* the first loop of processOpenOrders; stray collects stray_orders
RECURSIVE ScanOrders(_, _, _)
ScanOrders(s, orders, stray) ==
    IF orders = <<>> THEN [s |-> s, stray |-> stray]
    ELSE IF CancelAllCheck(s, Head(orders)).done
    THEN ScanOrders(CancelAllCheck(s, Head(orders)).s, Tail(orders), stray)
    ELSE ScanOrders(
            StrayCheck(CancelAllCheck(s, Head(orders)).s, Head(orders)).s,
            Tail(orders),
            ScanOne(StrayCheck(CancelAllCheck(s, Head(orders)).s, Head(orders)),
                    Head(orders), stray).stray)

RECURSIVE CancelStrays(_, _)
CancelStrays(s, stray) ==
    IF stray = <<>> THEN s
    ELSE IF Len(stray) > 50 THEN s
    ELSE CancelStrays(
           [sendCancelNonLocal(s, Head(stray)) EXCEPT
               !.grace = MapInsert(@, Head(stray),
                                   s.now + stray_grace_time_limit)],
           Tail(stray))

\* the selection of processOpenOrders without the look at the reported orders
OpenOrdersFilledUnlooked(s, order_numbers, request_time_sent_ms) ==
    {id \in s.active :
        LET p == s.pos[id]
        IN /\ p.order_set_time # 0
           /\ ~(p.order_cancel_time > 0 \/ p.is_cancelling)
           /\ ~(p.order_set_time > s.now - safety_delay_time)
           /\ ~(p.order_set_time >= request_time_sent_ms)}

\* the active positions processOpenOrders takes for filled
OpenOrdersFilled(s, order_numbers, request_time_sent_ms) ==
    {id \in s.active :
        LET p == s.pos[id]
        IN /\ p.order_set_time # 0
           /\ ~(p.order_cancel_time > 0 \/ p.is_cancelling)
           /\ ~(p.order_set_time > s.now - safety_delay_time)
           /\ p.order_number \notin order_numbers
           /\ ~(p.order_set_time >= request_time_sent_ms)}

\* the fill inference without the blank-orderbook mitigation
InferFillsUnmitigated(s, order_numbers, request_time_sent_ms) ==
    processFilledOrders(s,
        InOrder(s, OpenOrdersFilled(s, order_numbers, request_time_sent_ms)))

\* processOpenOrders after the first loop and the cancel-all return
InferFills(s, order_numbers, request_time_sent_ms) ==
    IF should_mitigate_blank_orderbook_flash /\ order_numbers = {}
       /\ Cardinality(s.active) > BlankFlashActive
    THEN s
    ELSE processFilledOrders(s,
           InOrder(s, OpenOrdersFilled(s, order_numbers, request_time_sent_ms)))

\* processOpenOrders from the cancel-all return on
AfterScan(r, cancelall, order_numbers, request_time_sent_ms) ==
    IF cancelall THEN [r.s EXCEPT !.cancelall = FALSE]
    ELSE InferFills(CancelStrays(r.s, r.stray), order_numbers,
                    request_time_sent_ms)

\* Engine::processOpenOrders: orders is the reported list in iteration order,
\* order_numbers the ids the adapter collected
processOpenOrders(s, order_numbers, orders, request_time_sent_ms) ==
    AfterScan(ScanOrders(s, orders, <<>>), s.cancelall, order_numbers,
              request_time_sent_ms)

\* Engine::cancelAll( market ): for the market "all" only without positions
cancelAll(s, all) ==
    IF all /\ (s.active # {} \/ s.queued # {}) THEN s
    ELSE [s EXCEPT !.prices = EmptyBag, !.index = <<>>, !.cancelall = TRUE]

----------------------------------------------------------------------------
(* Initial state and events *)

\* price reductions a rejected post-only order may go through
MaxResets == 1

\* the grid the user's setorder commands describe
GridBuy(n) == 10 * (n + 1)
GridSell(n) == GridBuy(n) + 5
GridSize == 2000
GridAlt(n) == IF n % 2 = 1 THEN 3000 ELSE 0

\* what the exchange may add to the amount of an order when it reports it
AmountNoise == {0, 1}

\* the ticker values the exchange reports
Tickers == { [bid |-> 22, ask |-> 28] }
\* with a ticker that crosses the buys of the two upper slots
LowTickers == Tickers \cup { [bid |-> 12, ask |-> 18] }

Init ==
    /\ build \in Builds
    /\ info \in MarketSettings
    /\ now = StartTime
    /\ positions = <<>>
    /\ positions_queued = {}
    /\ positions_active = {}
    /\ positions_by_number = <<>>
    /\ positions_freed = <<>>
    /\ running = TRUE
    /\ position_index = <<>>
    /\ order_prices = EmptyBag
    /\ highest_buy = 0
    /\ lowest_sell = 0
    /\ diverge_converge = {}
    /\ diverging_converging = EmptyBag
    /\ order_grace_times = <<>>
    /\ is_running_cancelall = FALSE
    /\ tallies = NoTallies
    /\ waves = NoWaves
    /\ next_pos = 1
    /\ nam_new = <<>>
    /\ nam_cancel = {}
    /\ xorders = {}
    /\ last = [op |-> "init", pos |-> 0]

\* a reply bound to a deleted position is dropped with its request
DropReplies(s, x) ==
    {IF o.pos \notin DOMAIN s.pos THEN [o EXCEPT !.acked = TRUE] ELSE o : o \in x}

\* the handler's result becomes the next state
\* the engine's state after a handler has run
Apply(s, x, op, id) ==
    /\ running
    /\ s.ok
    /\ running' = s.alive
    /\ positions_freed' =
          [p \in {q \in DOMAIN s.freed :
                     \E k \in DOMAIN s.by_number : s.by_number[k] = q}
             |-> s.freed[p]]
    /\ positions' = s.pos
    /\ positions_queued' = s.queued
    /\ positions_active' = s.active
    /\ positions_by_number' = s.by_number
    /\ position_index' = s.index
    /\ order_prices' = s.prices
    /\ highest_buy' = s.hi_buy
    /\ lowest_sell' = s.lo_sell
    /\ diverge_converge' = s.dc
    /\ diverging_converging' = s.dcing
    /\ order_grace_times' = s.grace
    /\ is_running_cancelall' = s.cancelall
    /\ next_pos' = s.next_pos
    /\ nam_new' = [i \in {j \in DOMAIN s.nam_new : s.nam_new[j] > 0} |-> s.nam_new[i]]
    /\ nam_cancel' = s.nam_cancel
    /\ xorders' = DropReplies(s, x)
    /\ last' = [op |-> op, pos |-> id]
    /\ UNCHANGED <<build, info, now>>

\* a handler other than checkBuySellCount has run
Commit(s, x, op, id) ==
    /\ Apply(s, x, op, id)
    /\ tallies' = tallies
    /\ waves' = waves

Orderings == IF DOMAIN positions = {} THEN {0} ELSE DOMAIN positions

\* the setorder commands the user may give for slot n
Commands(n) ==
    IF n < info.order_landmark_start
    THEN {[side |-> SIDE_BUY, type |-> "ghost"]}
    ELSE {[side |-> SIDE_BUY, type |-> "active"]}

\* the user's setorder command; the user loads one grid of MaxSlots slots,
\* before trading starts
SetOrder(side, type) ==
    /\ Len(position_index) < MaxSlots
    /\ last.op \in {"init", "setorder"}
    /\ LET n == Len(position_index)
           s == addPosition(Cur, side, GridBuy(n), GridSell(n), GridSize,
                            GridAlt(n), type, <<>>, FALSE)
       IN Commit(s, xorders, "setorder", s.ret)

\* the setorder commands the user may mistype for slot n
AnyCommands(n) ==
    [side : {SIDE_BUY, SIDE_SELL, "none"}, type : {"active", "ghost", "limit"},
     buy : {0, GridBuy(n)}, sell : {0, GridBuy(n), GridSell(n)},
     size : {0, GridSize}]

\* a setorder command with any arguments; last.op tells a ghost order, which
\* returns no position either, from the others
AddPositionRequest(c) ==
    /\ Len(position_index) < MaxSlots
    /\ last.op \in {"init", "addposition", "addghost"}
    /\ LET s == addPosition(Cur, c.side, c.buy, c.sell, c.size, 0, c.type,
                            <<>>, FALSE)
       IN Commit(s, xorders, IF c.type = "ghost" THEN "addghost" ELSE "addposition",
                 s.ret)

\* the timers and the transport start once the grid is loaded
Loaded ==
    Len(position_index) = MaxSlots \/ last.op \notin {"init", "setorder"}

\* the fast timer
OnCheckTimeouts ==
    /\ Loaded
    /\ \E f \in Orderings :
        Commit(onCheckTimeouts([Cur EXCEPT !.first = f]), xorders, "timeouts", 0)

\* the slow timer
OnCheckDivergeConverge ==
    /\ Loaded
    /\ \E f \in Orderings :
        Commit(onCheckDivergeConverge([Cur EXCEPT !.first = f]), xorders, "dc", 0)

\* the user's cancellocal command
CancelLocal ==
    /\ Loaded
    /\ \E f \in Orderings :
        Commit(cancelLocal([Cur EXCEPT !.first = f]), xorders, "cancellocal", 0)

\* the exchange accepts a new-order request and opens an order
ExchangeAccept(id) ==
    /\ Loaded
    /\ id \in DOMAIN nam_new
    /\ Cardinality(xorders) < MaxOrders
    /\ LET o == [id |-> Cardinality(xorders) + 1, pos |-> id,
                 side |-> positions[id].side, price |-> positions[id].price,
                 btc_amount |-> positions[id].btc_amount,
                 st |-> "open", acked |-> FALSE]
       IN Commit([Cur EXCEPT !.nam_new[id] = @ - 1], xorders \cup {o},
                 "accept", id)

\* the exchange rejects a post-only order that would take; the adapter looks
\* for a better price and sends the order again
PostOnlyReject(id) ==
    /\ id \in DOMAIN nam_new
    /\ id \in positions_queued
    /\ positions[id].price_reset_count < MaxResets
    /\ LET s1 == findBetterPrice([Cur EXCEPT !.nam_new[id] = @ - 1], id)
       IN Commit(sendBuySell(s1, id), xorders, "reject", id)

\* WavesREST::parseNewOrder: the reply to a new-order request arrives
ParseNewOrder(o) ==
    /\ o \in xorders
    /\ ~o.acked
    /\ LET s == IF ~isQueuedPosition(Cur, o.pos)
                THEN sendCancelNonLocal(Cur, <<o.id>>)
                ELSE setOrderMeat(Cur, o.pos, <<o.id>>)
       IN Commit(s, (xorders \ {o}) \cup {[o EXCEPT !.acked = TRUE]},
                 "ack", o.pos)

\* the exchange fills an open order and a fill notification reaches fillNQ
\* under the exchange's id of the order; a notification for an order that is
\* filled already is the same fill reported by another source
FillSignal(o) ==
    /\ o \in xorders
    /\ o.st \in {"open", "filled"}
    /\ LET key == <<o.id>>
           id == IF isPositionOrderID(Cur, key) THEN positions_by_number[key] ELSE 0
       IN \E u \in IF id = 0 \/ id \in DOMAIN positions THEN {0}
                   ELSE UBOutcomes(Cur, id) :
            Commit(fillNQ([Cur EXCEPT !.ub = u], key),
                   (xorders \ {o}) \cup {[o EXCEPT !.st = "filled"]},
                   IF o.st = "open" THEN "fill" ELSE "refill", id)

\* the exchange's order a cancel request names
OrderOf(key) == {o \in xorders : o.id = key[Len(key)]}

\* WavesREST::parseOrderStatus after a cancel: the exchange closes the order
\* if it is open and reports its status
CancelReply(r) ==
    /\ r \in nam_cancel
    /\ \E o \in OrderOf(r.key) :
         LET s0 == [Cur EXCEPT !.nam_cancel = @ \ {r}]
             s == IF r.pos = 0 \/ ~isActivePosition(s0, r.pos) THEN s0
                  ELSE IF o.st = "filled"
                  THEN processFilledOrders(s0, <<r.pos>>)
                  ELSE processCancelledOrder(s0, r.pos)
             x == IF o.st = "open"
                  THEN (xorders \ {o}) \cup {[o EXCEPT !.st = "cancelled"]}
                  ELSE xorders
         IN Commit(s, x, IF o.st = "filled" THEN "cancelfill" ELSE "cancelled",
                   r.pos)

\* the ticker arrives; last.pos records request_time_sent_ms
ProcessTicker(t, request_time_sent_ms) ==
    /\ Loaded
    /\ \E f \in Orderings :
        Commit(processTicker([Cur EXCEPT !.first = f], t.bid, t.ask,
                             request_time_sent_ms),
               xorders, "ticker", request_time_sent_ms)

\* what last.pos holds after a blank open-order list
BlankList == -1

\* the list of open orders arrives, in the order xs, with the amounts off by
\* d; last.pos records d, or BlankList.  Only the cancel-all branch looks up
\* a position by a reported number, so only there a freed position can be read
ProcessOpenOrders(xs, d) ==
    /\ Loaded
    /\ xs = <<>> => d = 0
    /\ \E f \in Orderings :
       \E u \in IF is_running_cancelall THEN {0} \cup DOMAIN positions ELSE {0} :
        LET orders == [i \in DOMAIN xs |->
                          [order_number |-> <<xs[i].id>>, side |-> xs[i].side,
                           price |-> xs[i].price,
                           btc_amount |-> xs[i].btc_amount + d]]
            order_numbers == {StoredOrderNumber(build, <<xs[i].id>>) : i \in DOMAIN xs}
        IN Commit(processOpenOrders([Cur EXCEPT !.first = f, !.ub = u],
                                    order_numbers, orders, now),
                  xorders, "openorders", IF xs = <<>> THEN BlankList ELSE d)

\* the lists the exchange may report: its open orders in the order the
\* adapter's hash yields them, or a blank list
OpenOrderLists ==
    LET open == {o \in xorders : o.st = "open"}
        ids == {o.id : o \in open}
        byId(i) == CHOOSE o \in open : o.id = i
    IN {<<>>} \cup {[k \in DOMAIN q |-> byId(q[k])] :
                      q \in {<<i>> \o SortAsc(ids \ {i}) : i \in ids}}

\* the user's cancelall command, for all markets or for the one market
CancelAll(all) ==
    /\ Loaded
    /\ Commit(cancelAll(Cur, all), xorders, "cancelall", 0)

\* the user cancels one position
UserCancel(id) ==
    /\ Loaded
    /\ id \in DOMAIN positions
    /\ Commit(cancelOrder(Cur, id, CANCELLING_FOR_USER), xorders, "cancel", id)

Tick ==
    /\ running
    /\ Loaded
    /\ now < StartTime + MaxTicks
    /\ now' = now + 1
    /\ last' = [op |-> "tick", pos |-> 0]
    /\ UNCHANGED <<build, info, positions, positions_queued, positions_active,
                   positions_by_number, positions_freed, running,
                   position_index, order_prices,
                   highest_buy, lowest_sell, diverge_converge,
                   diverging_converging, order_grace_times,
                   is_running_cancelall, next_pos, nam_new, nam_cancel,
                   xorders, tallies, waves>>

\* commands, the fast timer, and the exchange's replies to requests
Lifecycle ==
    \/ \E c \in Commands(Len(position_index)) : SetOrder(c.side, c.type)
    \/ OnCheckTimeouts
    \/ \E id \in DOMAIN nam_new : ExchangeAccept(id)
    \/ \E o \in xorders : ParseNewOrder(o)
    \/ \E r \in nam_cancel : CancelReply(r)

\* the lifecycle with fills and the diverge/converge timer, within one tick
Next ==
    \/ Lifecycle
    \/ \E o \in xorders : FillSignal(o)
    \/ OnCheckDivergeConverge

Spec == Init /\ [][Next]_vars

\* the lifecycle with the diverge/converge timer and the clock: requests and
\* cancels time out
NextTimed ==
    \/ Lifecycle
    \/ OnCheckDivergeConverge
    \/ Tick

SpecTimed == Init /\ [][NextTimed]_vars

\* the lifecycle with fills, the diverge/converge timer, the cancellocal
\* command and the ticker
NextLocal ==
    \/ Lifecycle
    \/ \E o \in xorders : FillSignal(o)
    \/ OnCheckDivergeConverge
    \/ CancelLocal
    \/ \E t \in Tickers : \E rt \in {0, now} : ProcessTicker(t, rt)

SpecLocal == Init /\ [][NextLocal]_vars

\* the lifecycle with the diverge/converge timer, the clock and the ticker:
\* the ticker infers fills of orders that are old enough
NextTicker ==
    \/ Lifecycle
    \/ OnCheckDivergeConverge
    \/ Tick
    \/ \E t \in Tickers : \E rt \in {0, now} : ProcessTicker(t, rt)

SpecTicker == Init /\ [][NextTicker]_vars

\* the same with a ticker that also reaches positions the diverge/converge
\* timer is cancelling
NextLowTicker ==
    \/ Lifecycle
    \/ OnCheckDivergeConverge
    \/ Tick
    \/ \E t \in LowTickers : \E rt \in {0, now} : ProcessTicker(t, rt)

SpecLowTicker == Init /\ [][NextLowTicker]_vars

\* orders that are set once, the clock, the exchange's open-order list and the
\* user's cancelall
NextOpen ==
    \/ \E c \in Commands(Len(position_index)) : SetOrder(c.side, c.type)
    \/ \E id \in DOMAIN nam_new : ExchangeAccept(id)
    \/ \E o \in xorders : ParseNewOrder(o)
    \/ \E r \in nam_cancel : CancelReply(r)
    \/ Tick
    \/ \E xs \in OpenOrderLists : \E d \in AmountNoise : ProcessOpenOrders(xs, d)
    \/ \E all \in BOOLEAN : CancelAll(all)

SpecOpen == Init /\ [][NextOpen]_vars

\* the lifecycle with the user's cancel of one position
NextCancel ==
    \/ Lifecycle
    \/ \E id \in DOMAIN positions : UserCancel(id)

SpecCancel == Init /\ [][NextCancel]_vars

\* setorder commands with any arguments, and the orders being set
NextAdd ==
    \/ \E c \in AnyCommands(Len(position_index)) : AddPositionRequest(c)
    \/ \E id \in DOMAIN nam_new : ExchangeAccept(id)
    \/ \E o \in xorders : ParseNewOrder(o)

SpecAdd == Init /\ [][NextAdd]_vars

----------------------------------------------------------------------------
(* tryMoveOrder on its own: one active position and a ticker *)

\* the prices a position stands at, the prices it was created with, and the
\* ticker values drawn for tryMoveOrder
MovePrices == {1, 100, 103, 105, 110}
MoveOriginals == {100, 105}
MoveAsks == {0, 102, 105, 106}
MoveBids == {0, 99, 101}
MoveSpread == 10

\* a position of side that stands at price v and was created at price o
MovedPosition(side, v, o) ==
    [Position(Cur, side, IF side = SIDE_BUY THEN o ELSE o - MoveSpread,
              IF side = SIDE_BUY THEN o + MoveSpread ELSE o, GridSize, <<0>>, FALSE)
       EXCEPT !.buy_price = IF side = SIDE_BUY THEN v ELSE @,
              !.sell_price = IF side = SIDE_SELL THEN v ELSE @,
              !.price = v, !.is_slippage = v # o,
              !.order_number = StoredOrderNumber(build, <<1>>),
              !.order_request_time = StartTime, !.order_set_time = StartTime]

\* one active position whose order is open, with a ticker; a buy stands at or
\* below its original price, a sell at or above, and the ticker is not crossed
InitMove ==
    /\ build \in Builds
    /\ info \in MarketSettings
    /\ now = StartTime
    /\ positions_queued = {}
    /\ positions_active = {1}
    /\ positions_by_number = MapInsert(<<>>, <<1>>, 1)
    /\ positions_freed = <<>>
    /\ running = TRUE
    /\ highest_buy \in MoveBids
    /\ lowest_sell \in MoveAsks
    /\ highest_buy = 0 \/ lowest_sell = 0 \/ highest_buy < lowest_sell
    /\ diverge_converge = {}
    /\ diverging_converging = EmptyBag
    /\ order_grace_times = <<>>
    /\ is_running_cancelall = FALSE
    /\ tallies = NoTallies
    /\ waves = NoWaves
    /\ next_pos = 2
    /\ nam_new = <<>>
    /\ nam_cancel = {}
    /\ last = [op |-> "init", pos |-> [was |-> 0, moved |-> FALSE]]
    /\ \E side \in {SIDE_BUY, SIDE_SELL} : \E v \in MovePrices : \E o \in MoveOriginals :
          /\ IF side = SIDE_BUY THEN v <= o ELSE v >= o
          /\ position_index =
                <<PositionData(IF side = SIDE_BUY THEN o ELSE o - MoveSpread,
                               IF side = SIDE_BUY THEN o + MoveSpread ELSE o,
                               GridSize, 0)>>
          /\ positions = MapInsert(<<>>, 1, MovedPosition(side, v, o))
          /\ order_prices = SetToBag({v})
          /\ xorders = {[id |-> 1, pos |-> 1, side |-> side, price |-> v,
                         btc_amount |-> GridSize, st |-> "open", acked |-> TRUE]}

\* Engine::tryMoveOrder on the position; last.pos records the price the
\* position stood at and what the call returned
TryMoveOrder(id) ==
    /\ last.op = "init"
    /\ id \in DOMAIN positions
    /\ Commit([Cur EXCEPT !.pos[id] = tryMoveOrder(Cur, positions[id]).pos],
              xorders, "trymove",
              [was |-> IF positions[id].side = SIDE_BUY
                       THEN positions[id].buy_price ELSE positions[id].sell_price,
               moved |-> tryMoveOrder(Cur, positions[id]).moved])

NextMove == \E id \in DOMAIN positions : TryMoveOrder(id)

SpecMove == InitMove /\ [][NextMove]_vars

----------------------------------------------------------------------------
(* Repricing again and again: the post-only reject and the better price *)

\* the quotes the ticker brings while a position is repriced: around the
\* position, below it, above it, and a crossed one
HaggleTickers ==
    { [bid |-> 99, ask |-> 106], [bid |-> 94, ask |-> 97],
      [bid |-> 104, ask |-> 108], [bid |-> 102, ask |-> 101] }

\* the settings of a run, with should_adjust_hibuy_losell set or not
HaggleSettings ==
    { [order_min |-> 0, order_max |-> 0, order_landmark_start |-> 0,
       order_landmark_thresh |-> 0, should_adjust_hibuy_losell |-> b] :
         b \in BOOLEAN }

\* one queued position at its original price whose new-order request is on
\* its way; no ticker has arrived
InitHaggle ==
    /\ build \in Builds
    /\ info \in HaggleSettings
    /\ now = StartTime
    /\ positions_queued = {1}
    /\ positions_active = {}
    /\ positions_by_number = <<>>
    /\ positions_freed = <<>>
    /\ running = TRUE
    /\ highest_buy = 0
    /\ lowest_sell = 0
    /\ diverge_converge = {}
    /\ diverging_converging = EmptyBag
    /\ order_grace_times = <<>>
    /\ is_running_cancelall = FALSE
    /\ tallies = NoTallies
    /\ waves = NoWaves
    /\ next_pos = 2
    /\ nam_new = MapInsert(<<>>, 1, 1)
    /\ nam_cancel = {}
    /\ xorders = {}
    /\ last = [op |-> "started", pos |-> 0]
    /\ \E side \in {SIDE_BUY, SIDE_SELL} : \E o \in MoveOriginals :
          /\ position_index =
                <<PositionData(IF side = SIDE_BUY THEN o ELSE o - MoveSpread,
                               IF side = SIDE_BUY THEN o + MoveSpread ELSE o,
                               GridSize, 0)>>
          /\ positions =
                MapInsert(<<>>, 1,
                    [MovedPosition(side, o, o) EXCEPT
                        !.order_number = <<>>, !.order_set_time = 0])
          /\ order_prices = SetToBag({o})

\* Engine::tryMoveOrder on the position
TryMoveAgain(id) ==
    /\ id \in DOMAIN positions
    /\ Commit([Cur EXCEPT !.pos[id] = tryMoveOrder(Cur, positions[id]).pos],
              xorders, "trymove", id)

\* the exchange rejects the post-only order: findBetterPrice under the
\* setting of the run, and the order is sent again
FindBetterPrice(id) ==
    /\ id \in DOMAIN nam_new
    /\ id \in positions_queued
    /\ positions[id].price_reset_count < MaxResets
    /\ LET s1 == findBetterPriceSet([Cur EXCEPT !.nam_new[id] = @ - 1], id,
                                    info.should_adjust_hibuy_losell)
       IN Commit(sendBuySell(s1, id), xorders, "reject", id)

NextHaggle ==
    \/ \E id \in DOMAIN positions : TryMoveAgain(id)
    \/ \E id \in DOMAIN positions : FindBetterPrice(id)
    \/ \E t \in HaggleTickers : ProcessTicker(t, 0)

SpecHaggle == InitHaggle /\ [][NextHaggle]_vars

----------------------------------------------------------------------------
(* A test run: no exchange, every position is set at once *)

\* the settings of a test run
TestSettings ==
    { [order_min |-> 0, order_max |-> 0, order_landmark_start |-> 0,
       order_landmark_thresh |-> 0, is_testing |-> TRUE] }

\* the order numbers a test run gives to the positions of the grid
TestNumbers == {<<MarketTok, i>> : i \in 0 .. (MaxSlots - 1)}

InitTest ==
    /\ build \in Builds
    /\ info \in TestSettings
    /\ now = StartTime
    /\ positions = <<>>
    /\ positions_queued = {}
    /\ positions_active = {}
    /\ positions_by_number = <<>>
    /\ positions_freed = <<>>
    /\ running = TRUE
    /\ position_index = <<>>
    /\ order_prices = EmptyBag
    /\ highest_buy = 0
    /\ lowest_sell = 0
    /\ diverge_converge = {}
    /\ diverging_converging = EmptyBag
    /\ order_grace_times = <<>>
    /\ is_running_cancelall = FALSE
    /\ tallies = NoTallies
    /\ waves = NoWaves
    /\ next_pos = 1
    /\ nam_new = <<>>
    /\ nam_cancel = {}
    /\ xorders = {}
    /\ last = [op |-> "init", pos |-> 0]

\* the test fills the order of a slot: fillNQ under the number of the slot;
\* last.pos records the slot
TestFill(key) ==
    /\ Loaded
    /\ \E u \in {-1, 0} \cup DOMAIN positions :
          Commit(fillNQ([Cur EXCEPT !.ub = u], key), xorders, "testfill", key[2])

\* the test loads a grid of buys and sells and fills orders
NextTest ==
    \/ \E side \in {SIDE_BUY, SIDE_SELL} : SetOrder(side, "active")
    \/ \E key \in TestNumbers : TestFill(key)

SpecTest == InitTest /\ [][NextTest]_vars

----------------------------------------------------------------------------
(* A book of many one-time orders, for the blank-orderbook mitigation *)

\* how many one-time orders are active at the start, which of them were set
\* a tick ago (the others were set in this tick, within the safety delay), and
\* which of them the user may cancel
FlashActive == {50, 51, 52}
FlashOld == {1, 2, 3, 4}
FlashCancellable == {1, 2, 3}
FlashSpread == 100

\* the one-time buy number i, active under order number i
OnetimePosition(i) ==
    [Position(Cur, SIDE_BUY, i, i + FlashSpread, GridSize, <<>>, FALSE)
       EXCEPT !.is_onetime = TRUE,
              !.order_number = StoredOrderNumber(build, <<i>>),
              !.order_request_time = IF i \in FlashOld THEN StartTime ELSE now,
              !.order_set_time = IF i \in FlashOld THEN StartTime ELSE now]

\* the engine runs for a tick; n one-time buys at n prices are active and open
\* on the exchange
InitFlash ==
    /\ build \in Builds
    /\ info \in MarketSettings
    /\ now = StartTime + MaxTicks
    /\ positions_freed = <<>>
    /\ running = TRUE
    /\ position_index = <<>>
    /\ highest_buy = 0
    /\ lowest_sell = 0
    /\ diverge_converge = {}
    /\ diverging_converging = EmptyBag
    /\ order_grace_times = <<>>
    /\ is_running_cancelall = FALSE
    /\ tallies = NoTallies
    /\ waves = NoWaves
    /\ nam_new = <<>>
    /\ nam_cancel = {}
    /\ last = [op |-> "started", pos |-> 0]
    /\ \E n \in FlashActive :
          /\ positions = [i \in 1..n |-> OnetimePosition(i)]
          /\ positions_queued = {}
          /\ positions_active = 1..n
          /\ positions_by_number = [k \in {<<i>> : i \in 1..n} |-> k[1]]
          /\ order_prices = SetToBag(1..n)
          /\ next_pos = n + 1
          /\ xorders = {[id |-> i, pos |-> i, side |-> SIDE_BUY, price |-> i,
                         btc_amount |-> GridSize, st |-> "open", acked |-> TRUE] :
                          i \in 1..n}

\* the exchange answers with a blank list, the user cancels some orders
NextFlash ==
    \/ ProcessOpenOrders(<<>>, 0)
    \/ \E id \in FlashCancellable : UserCancel(id)
    \/ \E r \in nam_cancel : CancelReply(r)

SpecFlash == InitFlash /\ [][NextFlash]_vars

----------------------------------------------------------------------------
(* The timers under flow control *)

\* what last.pos holds after a timer whose flow-control test yielded
Yielded == 1
FlowCode(yield) == IF yield THEN Yielded ELSE 0

\* the fast timer; the transport queue is over its limit or not
OnCheckTimeoutsFlow(yield) ==
    /\ Loaded
    /\ \E f \in Orderings :
        Commit(onCheckTimeoutsFlow([Cur EXCEPT !.first = f], yield), xorders,
               "timeouts", FlowCode(yield))

\* the slow timer; the transport queue is over its limit or not
OnCheckDivergeConvergeFlow(yield) ==
    /\ Loaded
    /\ \E f \in Orderings :
        Commit(onCheckDivergeConvergeFlow([Cur EXCEPT !.first = f], yield),
               xorders, "dc", FlowCode(yield))

\* the orders being set and cancelled, and the two timers under flow control
NextFlow ==
    \/ \E c \in Commands(Len(position_index)) : SetOrder(c.side, c.type)
    \/ \E id \in DOMAIN nam_new : ExchangeAccept(id)
    \/ \E o \in xorders : ParseNewOrder(o)
    \/ \E r \in nam_cancel : CancelReply(r)
    \/ \E yield \in BOOLEAN : OnCheckTimeoutsFlow(yield)
    \/ \E yield \in BOOLEAN : OnCheckDivergeConvergeFlow(yield)

SpecFlow == Init /\ [][NextFlow]_vars

----------------------------------------------------------------------------
(* A grid whose orders are all open, for the batches of processFilledOrders *)

\* the grids the user may have loaded: slots of one buy/sell ratio (a grid
\* with a constant relative spread), slots of different ratios, and a grid
\* long enough for a band of converge candidates on either side
BatchGrids ==
    { <<[buy |-> 30, sell |-> 36], [buy |-> 35, sell |-> 42]>>,
      <<[buy |-> 30, sell |-> 35], [buy |-> 40, sell |-> 45]>>,
      <<[buy |-> 10, sell |-> 12], [buy |-> 20, sell |-> 24],
        [buy |-> 25, sell |-> 30]>>,
      <<[buy |-> 10, sell |-> 15], [buy |-> 20, sell |-> 25],
        [buy |-> 30, sell |-> 35], [buy |-> 40, sell |-> 45],
        [buy |-> 50, sell |-> 55]>> }

\* the tickers that cross a whole side of every grid
BatchTickers == { [bid |-> 1, ask |-> 2], [bid |-> 98, ask |-> 99] }

\* the position of slot i - 1 of the grid g, set a tick ago
BatchPosition(g, side, i) ==
    [Position(Cur, side, g[i].buy, g[i].sell, GridSize, <<i - 1>>, FALSE)
       EXCEPT !.order_number = StoredOrderNumber(build, <<i>>),
              !.order_request_time = StartTime,
              !.order_set_time = StartTime]

\* how many one-time buys the user has set beside a grid of two slots
BatchOnetime == {0, 4}

\* the engine runs for a tick under one of the settings; every slot of one
\* of the grids has an active position of one side whose order is open on the
\* exchange, and the one-time buys are active and open as well
InitGrid(settings, grids) ==
    /\ build \in Builds
    /\ info \in settings
    /\ now = StartTime + MaxTicks
    /\ positions_freed = <<>>
    /\ running = TRUE
    /\ highest_buy = 0
    /\ lowest_sell = 0
    /\ diverge_converge = {}
    /\ diverging_converging = EmptyBag
    /\ order_grace_times = <<>>
    /\ is_running_cancelall = FALSE
    /\ tallies = NoTallies
    /\ waves = NoWaves
    /\ nam_new = <<>>
    /\ nam_cancel = {}
    /\ last = [op |-> "started", pos |-> 0]
    /\ \E g \in grids : \E side \in {SIDE_BUY, SIDE_SELL} :
       \E n \in IF Len(g) = 2 THEN BatchOnetime ELSE {0} :
          /\ position_index =
                [i \in DOMAIN g |-> PositionData(g[i].buy, g[i].sell, GridSize, 0)]
          /\ positions = [i \in 1 .. (Len(g) + n) |->
                            IF i <= Len(g) THEN BatchPosition(g, side, i)
                            ELSE OnetimePosition(i)]
          /\ positions_queued = {}
          /\ positions_active = 1 .. (Len(g) + n)
          /\ positions_by_number =
                [k \in {<<i>> : i \in 1 .. (Len(g) + n)} |-> k[1]]
          /\ order_prices =
                SetToBag({IF side = SIDE_BUY THEN g[i].buy ELSE g[i].sell :
                            i \in DOMAIN g} \cup (Len(g) + 1) .. (Len(g) + n))
          /\ next_pos = Len(g) + n + 1
          /\ xorders = {[id |-> i, pos |-> i,
                         side |-> IF i <= Len(g) THEN side ELSE SIDE_BUY,
                         price |-> IF i > Len(g) THEN i
                                   ELSE IF side = SIDE_BUY THEN g[i].buy
                                   ELSE g[i].sell,
                         btc_amount |-> GridSize, st |-> "open", acked |-> TRUE] :
                          i \in 1 .. (Len(g) + n)}

InitBatch == InitGrid(MarketSettings, BatchGrids)

\* the exchange reports its open orders or a blank list, and the ticker
NextBatch ==
    \/ \E xs \in OpenOrderLists : \E d \in AmountNoise : ProcessOpenOrders(xs, d)
    \/ \E t \in BatchTickers : ProcessTicker(t, now)

SpecBatch == InitBatch /\ [][NextBatch]_vars

\* quotes with ask = bid and with ask < bid, inside the grids
CrossedTickers == { [bid |-> 33, ask |-> 33], [bid |-> 37, ask |-> 32] }

\* the ticker on the open grid, with sound quotes and with crossed ones,
\* pushed by the feed (no request time) or polled
NextCrossed ==
    \E t \in BatchTickers \cup CrossedTickers : \E rt \in {0, now} :
        ProcessTicker(t, rt)

SpecCrossed == InitBatch /\ [][NextCrossed]_vars

\* the diverge/converge timer on the open grid, while the user cancels orders
NextBand ==
    \/ OnCheckDivergeConverge
    \/ \E id \in DOMAIN positions : UserCancel(id)
    \/ \E r \in nam_cancel : CancelReply(r)

SpecBand == InitBatch /\ [][NextBand]_vars

\* the fast timer on the open grid, while the user cancels orders
NextCount ==
    \/ OnCheckTimeouts
    \/ \E id \in DOMAIN positions : UserCancel(id)
    \/ \E r \in nam_cancel : CancelReply(r)

SpecCount == InitBatch /\ [][NextCount]_vars

----------------------------------------------------------------------------
(* The short/long requests of the portfolio module *)

\* the portfolio module asks to flip the highest buy or the lowest sell
FlipHiBuyPrice ==
    \E f \in Orderings :
        Commit(flipHiBuyPrice([Cur EXCEPT !.first = f]), xorders, "short", 0)

FlipLoSellPrice ==
    \E f \in Orderings :
        Commit(flipLoSellPrice([Cur EXCEPT !.first = f]), xorders, "long", 0)

\* flips on the open grid; the exchange answers the cancels
NextFlip ==
    \/ FlipHiBuyPrice
    \/ FlipLoSellPrice
    \/ \E r \in nam_cancel : CancelReply(r)

SpecFlip == InitBatch /\ [][NextFlip]_vars

----------------------------------------------------------------------------
(* The loop of checkBuySellCount, pass by pass *)

\* the settings of setMarketSettings, which takes any numbers: the usual ones,
\* order_min above order_max, and a negative order_landmark_thresh
LoopSettings ==
    MarketSettings
    \cup { [order_min |-> 3, order_max |-> 2, order_landmark_start |-> 0,
            order_landmark_thresh |-> 0],
           [order_min |-> 1, order_max |-> 2, order_landmark_start |-> 0,
            order_landmark_thresh |-> -1] }

\* the loop is followed on the grids of three slots
InitLoop == InitGrid(LoopSettings, {g \in BatchGrids : Len(g) = 3})

\* the slots of position_index that no position stands on
FreeSlots ==
    {i \in 0 .. (Len(position_index) - 1) : PositionsByIndex(Cur, i) = {}}

\* checkBuySellCount is entered and tallies the buys and the sells that are
\* not being cancelled; a run sets one position per free slot at most
StartCount ==
    /\ ~tallies.counting
    /\ next_pos - 1 + Cardinality(FreeSlots) <= MaxCreated
    /\ Apply(Cur, xorders, "count", 0)
    /\ waves' = waves
    /\ tallies' =
          [counting |-> TRUE,
           buys |-> Cardinality({id \in DOMAIN positions :
                       positions[id].side = SIDE_BUY /\ ~positions[id].is_cancelling}),
           sells |-> Cardinality({id \in DOMAIN positions :
                       positions[id].side = SIDE_SELL /\ ~positions[id].is_cancelling})]

\* whether a pass of the do-while loop sets new_orders_ct above 0
PassSetsOrders(s, buys, sells) ==
    /\ ~(Len(s.index) = 0 \/ s.info.order_min <= 0 \/ s.info.order_max <= 0)
    /\ \/ TooFew(s, buys) \/ RoomForLandmark(s, buys)
       \/ TooFew(s, sells) \/ RoomForLandmark(s, sells)

\* one pass of the do-while loop of checkBuySellCount, flow control not
\* yielding: the loop goes on while new_orders_ct > 0, else the maps are
\* cleared and the function returns
CountPass ==
    /\ tallies.counting
    /\ \E f \in Orderings :
       \E r \in {IF Len(position_index) = 0 \/ info.order_min <= 0
                    \/ info.order_max <= 0
                 THEN Cur
                 ELSE BuySellPass([Cur EXCEPT !.first = f],
                                  tallies.buys, tallies.sells)} :
        /\ Apply(r, xorders, "pass", 0)
        /\ waves' = waves
        /\ tallies' =
              IF PassSetsOrders(Cur, tallies.buys, tallies.sells)
              THEN [counting |-> TRUE,
                    buys |-> CountAfter(Cur, tallies.buys),
                    sells |-> CountAfter(Cur, tallies.sells)]
              ELSE NoTallies

\* checkBuySellCount on the open grid; between its runs the user cancels
\* orders and the cancels are acknowledged
NextLoop ==
    \/ StartCount
    \/ CountPass
    \/ ~tallies.counting /\ \E id \in DOMAIN positions : UserCancel(id)
    \/ ~tallies.counting /\ \E r \in nam_cancel : CancelReply(r)

SpecLoop == InitLoop /\ [][NextLoop]_vars

----------------------------------------------------------------------------
(* The transport adapter WavesREST: its request queue and its timers *)

\* BaseREST::limit_commands_queued, limit_commands_sent and
\* limit_timeout_yield, scaled down
limit_commands_queued == 4
limit_commands_sent == 4
limit_timeout_yield == 2

\* the market is left to manual orders: order_min 0 turns the automatic
\* band maintenance of checkBuySellCount off
ManualSettings ==
    { [order_min |-> 0, order_max |-> 0, order_landmark_start |-> 0,
       order_landmark_thresh |-> 0] }

\* requests of the commands "on" (new order), "oc" (cancel), "os" (order
\* status) and "bd" (book data) that nam_queue_sent holds
SentOf(w, cmds) ==
    BagCardinality([r \in {x \in BagToSet(w.nam_queue_sent) : x.cmd \in cmds}
                      |-> w.nam_queue_sent[r]])

\* BaseREST::yieldToFlowControl: too many commands queued or sent
yieldToFlowControl(w) ==
    \/ Len(w.nam_queue) >= limit_commands_queued
    \/ SentOf(w, {"on", "oc", "os", "bd"}) >= limit_commands_sent

\* BaseREST::isCommandSent
isCommandSent(w, cmd, n) == SentOf(w, {cmd}) >= n

\* BaseREST::sendRequest: the request joins nam_queue; it has not been sent
sendRequest(w, cmd, id) ==
    [w EXCEPT !.nam_queue =
                 Append(@, [cmd |-> cmd, pos |-> id, time_sent_ms |-> 0])]

\* Engine::onCheckTimeouts with the adapter's queue: WavesREST::sendBuySell
\* queues the request, the request time is set when it is sent
onCheckTimeoutsWaves(s, w) ==
    LET s1 == checkBuySellCount(s)
    IN IF yieldToFlowControl(w) \/ Len(w.nam_queue) > limit_timeout_yield
       THEN [s |-> s1, w |-> w, resent |-> 0]
       ELSE IF StaleQueued(s1) # {}
       THEN [s |-> s1, w |-> sendRequest(w, "on", First(s1, StaleQueued(s1))),
             resent |-> First(s1, StaleQueued(s1))]
       ELSE [s |-> ActiveTimeouts(s1, InOrder(s1, s1.active)), w |-> w,
             resent |-> 0]

\* WavesREST::onCheckCancellingOrders
onCheckCancellingOrders(s, w) ==
    IF yieldToFlowControl(w) \/ Len(w.cancelling_orders_to_query) = 0 THEN w
    ELSE LET n == IF w.last_cancelling_index_checked + 1
                       >= Len(w.cancelling_orders_to_query)
                  THEN 0 ELSE w.last_cancelling_index_checked + 1
             order_to_check == w.cancelling_orders_to_query[n + 1]
             w1 == [w EXCEPT !.last_cancelling_index_checked = n]
         IN IF isPosition(s, order_to_check)
            THEN sendRequest(w1, "os", order_to_check)
            ELSE [w1 EXCEPT !.cancelling_orders_to_query =
                               SubSeq(@, 1, n) \o SubSeq(@, n + 2, Len(@))]

\* the requests of nam_queue that sendNamQueue does not hold back
Sendable(w) ==
    {i \in DOMAIN w.nam_queue :
        ~(w.nam_queue[i].cmd = "on" /\ isCommandSent(w, "on", 2))}

\* WavesREST::sendNamRequest for the request at place i of nam_queue.  The
\* request of a position that was deleted while it waited writes the time into
\* the freed object: no position is created while such a request waits, so the
\* write reaches no position of the store
sendNamRequest(s, w, i) ==
    LET request == w.nam_queue[i]
        live == request.pos \in DOMAIN s.pos
        s1 == IF request.cmd = "on" /\ live
              THEN [s EXCEPT !.pos[request.pos].order_request_time = s.now]
              ELSE IF request.cmd = "oc" /\ live
              THEN [s EXCEPT !.pos[request.pos].order_cancel_time = s.now]
              ELSE s
    IN [s |-> s1,
        w |-> [w EXCEPT
                 !.nam_queue = SubSeq(@, 1, i - 1) \o SubSeq(@, i + 1, Len(@)),
                 !.nam_queue_sent =
                     BagAppend(@, [request EXCEPT !.time_sent_ms = s.now])]]

\* WavesREST::sendNamQueue, the server answering (yieldToServer is false)
sendNamQueue(s, w) ==
    LET w1 == IF Len(w.nam_queue) = 0 THEN onCheckCancellingOrders(s, w) ELSE w
    IN IF Sendable(w1) = {} THEN [s |-> s, w |-> w1]
       ELSE sendNamRequest(s, w1, CHOOSE i \in Sendable(w1) :
                                     \A j \in Sendable(w1) : i <= j)

\* WavesREST::checkTicker: the book of the market is requested
checkTicker(w) ==
    IF yieldToFlowControl(w) THEN w ELSE sendRequest(w, "bd", 0)

\* WavesREST::parseCancelOrder with the status OrderCanceled or
\* OrderCancelRejected
parseCancelOrder(s, w, id) ==
    IF id = 0 \/ ~isActivePosition(s, id)
          \/ id \in Range(w.cancelling_orders_to_query)
    THEN w
    ELSE [w EXCEPT !.cancelling_orders_to_query = Append(@, id)]

\* WavesREST::parseOrderStatus with the status Cancelled or Filled
parseOrderStatus(s, w, id, status) ==
    IF id = 0 THEN [s |-> s, w |-> w]
    ELSE IF ~isActivePosition(s, id)
    THEN [s |-> s,
          w |-> [w EXCEPT !.cancelling_orders_to_query = RemoveFirst(@, id)]]
    ELSE [s |-> IF status = "Filled" THEN processFilledOrders(s, <<id>>)
                ELSE processCancelledOrder(s, id),
          w |-> IF s.pos[id].is_cancelling
                THEN [w EXCEPT !.cancelling_orders_to_query = RemoveFirst(@, id)]
                ELSE w]

\* the exchange's id of the order placed by a new-order request: the order of
\* a position that is still queued, and a further order of a position that is
\* not
NewOrderId(s, id) ==
    IF isQueuedPosition(s, id) THEN <<id>> ELSE <<id + MaxSlots>>

\* parseNewOrder without the removal on a balance failure
parseNewOrderKeepsAll(s, w, id, reply) ==
    IF id = 0 THEN [s |-> s, w |-> w]
    ELSE IF ~isQueuedPosition(s, id)
    THEN [s |-> s,
          w |-> IF reply = "accepted" THEN sendRequest(w, "oc", 0) ELSE w]
    ELSE IF reply # "accepted"
    THEN [s |-> s, w |-> w]
    ELSE [s |-> setOrderMeat(s, id, NewOrderId(s, id)), w |-> w]

\* WavesREST::parseNewOrder: the reply is "accepted" (success with the id of
\* the order), "no_balance" (a failure whose message starts with "Not enough
\* tradable balance.") or "failed" (any other failure)
parseNewOrder(s, w, id, reply) ==
    IF id = 0 THEN [s |-> s, w |-> w]
    ELSE IF ~isQueuedPosition(s, id)
    THEN [s |-> s,
          w |-> IF reply = "accepted" THEN sendRequest(w, "oc", 0) ELSE w]
    ELSE IF reply # "accepted"
    THEN [s |-> IF reply = "no_balance" THEN deletePosition(s, id) ELSE s,
          w |-> w]
    ELSE [s |-> setOrderMeat(s, id, NewOrderId(s, id)), w |-> w]

\* the age in ticks at which the answer to an open-orders request is too
\* old to be believed
orderbook_stale_tolerance == 1

\* what parseMyOrders collects from the reported ids: the ids that are order
\* numbers of the store, each with the data of its position
ReportedOrders(s, ids) ==
    LET valid == SelectSeq(ids, LAMBDA k : isPositionOrderID(s, k))
    IN [i \in DOMAIN valid |->
          LET pos == s.pos[s.by_number[valid[i]]]
          IN [order_number |-> valid[i], side |-> pos.side,
              price |-> pos.price, btc_amount |-> pos.btc_amount]]

\* parseMyOrders without the test against the request time of the latest
\* answer that was taken
parseMyOrdersAnyOrder(s, w, ids, request_time_sent_ms) ==
    IF request_time_sent_ms < s.now - orderbook_stale_tolerance
    THEN [s |-> s, w |-> w]
    ELSE LET orders == ReportedOrders(s, ids)
         IN [s |-> processOpenOrders(s,
                      {orders[i].order_number : i \in DOMAIN orders}, orders,
                      request_time_sent_ms),
             w |-> [w EXCEPT !.orderbook_update_request_time =
                                request_time_sent_ms]]

\* WavesREST::parseMyOrders: ids are the ids of the reported orders
parseMyOrders(s, w, ids, request_time_sent_ms) ==
    IF request_time_sent_ms < s.now - orderbook_stale_tolerance
    THEN [s |-> s, w |-> w]
    ELSE IF request_time_sent_ms < w.orderbook_update_request_time
    THEN [s |-> s, w |-> w]
    ELSE LET orders == ReportedOrders(s, ids)
         IN [s |-> processOpenOrders(s,
                      {orders[i].order_number : i \in DOMAIN orders}, orders,
                      request_time_sent_ms),
             w |-> [w EXCEPT !.orderbook_update_request_time =
                                request_time_sent_ms]]

\* WavesREST::onCheckBotOrders: the open orders of the account are requested
onCheckBotOrders(w) ==
    IF yieldToFlowControl(w) THEN w ELSE sendRequest(w, "om", 0)

\* Engine::deleteReply for the requests of the positions that were deleted
DropSent(s, w) ==
    [w EXCEPT !.nam_queue_sent =
        [r \in {x \in BagToSet(@) : x.pos = 0 \/ x.pos \in DOMAIN s.pos} |-> @[r]]]

\* a handler that works on the adapter's queues as well has run
CommitWaves(r, op, id) ==
    /\ Apply(r.s, xorders, op, id)
    /\ tallies' = tallies
    /\ waves' = DropSent(r.s, r.w)

\* a queued position whose new-order request went out a tick ago
SentPosition(g, side, i) ==
    [Position(Cur, side, g[i].buy, g[i].sell, GridSize, <<i - 1>>, FALSE)
       EXCEPT !.order_request_time = StartTime]

\* the grids of two and of three slots
WavesGrids == {g \in BatchGrids : Len(g) <= 3}

\* the adapter's engine keeps the order ids as the exchange gives them
WavesBuild == "POLONIEX"

\* the engine and the adapter of one market a tick after the start: the
\* positions in queued wait for the answer to their new-order request, the
\* others are active and the cancel of each of them is on its way
InitWaves(queued, grids) ==
    /\ build = WavesBuild
    /\ info \in ManualSettings
    /\ now = StartTime + MaxTicks
    /\ positions_freed = <<>>
    /\ running = TRUE
    /\ highest_buy = 0
    /\ lowest_sell = 0
    /\ diverge_converge = {}
    /\ diverging_converging = EmptyBag
    /\ order_grace_times = <<>>
    /\ is_running_cancelall = FALSE
    /\ tallies = NoTallies
    /\ nam_new = <<>>
    /\ nam_cancel = {}
    /\ xorders = {}
    /\ next_pos = 4
    /\ last = [op |-> "started", pos |-> 0]
    /\ \E g \in grids : \E side \in {SIDE_BUY, SIDE_SELL} :
          /\ position_index =
                [i \in DOMAIN g |-> PositionData(g[i].buy, g[i].sell, GridSize, 0)]
          /\ positions =
                [i \in DOMAIN g |->
                    IF queued THEN SentPosition(g, side, i)
                    ELSE [BatchPosition(g, side, i) EXCEPT
                            !.is_cancelling = TRUE,
                            !.cancel_reason = CANCELLING_FOR_USER,
                            !.order_cancel_time = StartTime + MaxTicks]]
          /\ positions_queued = IF queued THEN DOMAIN g ELSE {}
          /\ positions_active = IF queued THEN {} ELSE DOMAIN g
          /\ positions_by_number =
                IF queued THEN <<>> ELSE [k \in {<<i>> : i \in DOMAIN g} |-> k[1]]
          /\ order_prices =
                SetToBag({IF side = SIDE_BUY THEN g[i].buy ELSE g[i].sell :
                            i \in DOMAIN g})
          /\ waves = [NoWaves EXCEPT !.nam_queue_sent =
                        SetToBag({[cmd |-> IF queued THEN "on" ELSE "oc",
                                   pos |-> i, time_sent_ms |-> StartTime] :
                                     i \in DOMAIN g})]

\* the clock moves on by a tick.  Times are kept relative to now: what was
\* done in this tick is a tick old afterwards, older than every timeout
Aged(p) ==
    [p EXCEPT !.order_request_time = IF @ = now THEN now - 1 ELSE @,
              !.order_set_time = IF @ = now THEN now - 1 ELSE @,
              !.order_cancel_time = IF @ = now THEN now - 1 ELSE @]

TickOver ==
    /\ \E id \in DOMAIN positions : Aged(positions[id]) # positions[id]
    /\ CommitWaves([s |-> [Cur EXCEPT !.pos = [id \in DOMAIN @ |-> Aged(@[id])]],
                    w |-> waves], "tick", 0)

\* the fast timer of the engine
OnCheckTimeoutsWaves ==
    \E r \in {onCheckTimeoutsWaves(Cur, waves)} :
        CommitWaves(r, "timeouts", r.resent)

\* the send timer of the adapter
SendNamQueue ==
    \E r \in {sendNamQueue(Cur, waves)} : CommitWaves(r, "send", 0)

\* the ticker timer of the adapter
OnCheckTicker ==
    \E w \in {checkTicker(waves)} :
        CommitWaves([s |-> Cur, w |-> w], "ticker", 0)

\* a request comes back with a body that is not JSON (a 5xx page), or the
\* book of an uncrossed market comes back: onNamReply drops the request
ReplyDropped(r) ==
    /\ BagIn(r, waves.nam_queue_sent)
    /\ r.cmd \in {"on", "bd"}
    /\ CommitWaves([s |-> Cur,
                    w |-> [waves EXCEPT !.nam_queue_sent = BagRemoveOne(@, r)]],
                   "dropped", r.pos)

\* the reply to a cancel request: OrderCanceled or OrderCancelRejected
CancelAck(r) ==
    /\ BagIn(r, waves.nam_queue_sent)
    /\ r.cmd = "oc"
    /\ CommitWaves([s |-> Cur,
                    w |-> parseCancelOrder(Cur,
                            [waves EXCEPT !.nam_queue_sent = BagRemoveOne(@, r)],
                            r.pos)],
                   "cancel_ack", r.pos)

\* the reply to an order status request: the exchange reports the order as
\* Cancelled or Filled
StatusReply(r, status) ==
    /\ BagIn(r, waves.nam_queue_sent)
    /\ r.cmd = "os"
    /\ \E x \in {parseOrderStatus(Cur,
                    [waves EXCEPT !.nam_queue_sent = BagRemoveOne(@, r)],
                    r.pos, status)} :
          CommitWaves(x, "status", r.pos)

\* the reply to a new-order request
NewOrderReply(r, reply) ==
    /\ BagIn(r, waves.nam_queue_sent)
    /\ r.cmd = "on"
    /\ \E x \in {parseNewOrder(Cur,
                    [waves EXCEPT !.nam_queue_sent = BagRemoveOne(@, r)],
                    r.pos, reply)} :
          CommitWaves(x, reply, r.pos)

\* some request comes back without an answer that can be read
RepliesDropped ==
    \E r \in BagToSet(waves.nam_queue_sent) : ReplyDropped(r)

\* queued positions whose requests are not answered: the timers of the engine
\* and of the adapter, the clock, and replies that carry nothing
NextResend ==
    \/ OnCheckTimeoutsWaves
    \/ SendNamQueue
    \/ TickOver
    \/ RepliesDropped

\* the timers fire again and again, time passes, and every request is
\* answered, if only by an error page
SpecResend ==
    /\ InitWaves(TRUE, WavesGrids)
    /\ [][NextResend]_vars
    /\ WF_vars(OnCheckTimeoutsWaves)
    /\ WF_vars(SendNamQueue)
    /\ WF_vars(TickOver)
    /\ WF_vars(RepliesDropped)

\* the replies of the exchange
BookReply == \E r \in BagToSet(waves.nam_queue_sent) : ReplyDropped(r)
CancelAcks == \E r \in BagToSet(waves.nam_queue_sent) : CancelAck(r)
StatusReplies ==
    \E r \in BagToSet(waves.nam_queue_sent) :
    \E status \in {"Cancelled", "Filled"} : StatusReply(r, status)

\* active positions whose cancel is on its way: the send timer and the ticker
\* timer of the adapter, and the replies of the exchange
NextQuery ==
    \/ SendNamQueue
    \/ OnCheckTicker
    \/ BookReply
    \/ CancelAcks
    \/ StatusReplies

\* the timers fire again and again, and every book request and every cancel
\* is answered
SpecQuery ==
    /\ InitWaves(FALSE, {g \in WavesGrids : Len(g) = 2})
    /\ [][NextQuery]_vars
    /\ WF_vars(SendNamQueue)
    /\ WF_vars(OnCheckTicker)
    /\ WF_vars(BookReply)
    /\ WF_vars(CancelAcks)

\* the replies to the new-order requests
NewOrderReplies ==
    \E r \in BagToSet(waves.nam_queue_sent) :
    \E reply \in {"accepted", "no_balance", "failed"} : NewOrderReply(r, reply)

\* queued positions whose requests are answered, late or in time
NextBalance ==
    \/ OnCheckTimeoutsWaves
    \/ SendNamQueue
    \/ TickOver
    \/ NewOrderReplies

SpecBalance ==
    InitWaves(TRUE, {g \in WavesGrids : Len(g) = 2}) /\ [][NextBalance]_vars

\* how many ticks pass while open-orders requests are under way, and how
\* many of these requests are under way at a time
SnapTicks == 2
SnapRequests == 2

\* the orderbook timer of the adapter
OnCheckBotOrders ==
    /\ Len(waves.nam_queue) + SentOf(waves, {"om"}) < SnapRequests
    /\ \E w \in {onCheckBotOrders(waves)} :
          CommitWaves([s |-> Cur, w |-> w], "orders", 0)

\* the answer to an open-orders request arrives with the ids xs; last.pos
\* records when the request was sent
MyOrdersReply(r, xs) ==
    /\ BagIn(r, waves.nam_queue_sent)
    /\ r.cmd = "om"
    /\ \E f \in Orderings :
       \E x \in {parseMyOrders([Cur EXCEPT !.first = f],
                    [waves EXCEPT !.nam_queue_sent = BagRemoveOne(@, r)],
                    [i \in DOMAIN xs |-> <<xs[i].id>>], r.time_sent_ms)} :
          CommitWaves(x, "myorders", r.time_sent_ms)

\* a tick passes
SnapTick ==
    /\ now < StartTime + MaxTicks + SnapTicks
    /\ now' = now + 1
    /\ last' = [op |-> "tick", pos |-> 0]
    /\ UNCHANGED <<build, info, positions, positions_queued, positions_active,
                   positions_by_number, positions_freed, running,
                   position_index, order_prices,
                   highest_buy, lowest_sell, diverge_converge,
                   diverging_converging, order_grace_times,
                   is_running_cancelall, next_pos, nam_new, nam_cancel,
                   xorders, tallies, waves>>

\* the open grid of the adapter's engine: every position is active and its
\* order is open on the exchange
InitSnap ==
    /\ InitGrid(ManualSettings, {g \in WavesGrids : Len(g) = 2})
    /\ build = WavesBuild
    /\ \A id \in DOMAIN positions : ~positions[id].is_onetime

\* the orderbook timer, the send timer, the clock, and the answers of the
\* exchange in any order: the open orders or a blank list
NextSnap ==
    \/ OnCheckBotOrders
    \/ SendNamQueue
    \/ SnapTick
    \/ \E r \in BagToSet(waves.nam_queue_sent) : \E xs \in OpenOrderLists :
          MyOrdersReply(r, xs)

SpecSnap == InitSnap /\ [][NextSnap]_vars

----------------------------------------------------------------------------
(* The claims *)

\* positions constructed so far and no longer in the store
Removed == (1 .. (next_pos - 1)) \ DOMAIN positions

\* C1: a slot index that is not reserved in diverging_converging is held by
\* at most one position of the store
C1_OnePositionPerIndex ==
    \A idx \in 0 .. (Len(position_index) - 1) :
        \/ BagIn(idx, diverging_converging)
        \/ Cardinality({id \in DOMAIN positions :
                           idx \in Range(positions[id].market_indices)}) <= 1

\* C2: the exchange holds at most one open order submitted for a position
C2_OneOpenOrderPerPosition ==
    \A o1 \in xorders : \A o2 \in xorders :
        (o1.pos = o2.pos /\ o1.st = "open" /\ o2.st = "open") => o1 = o2

\* C3: every position of the store is in exactly one of positions_queued and
\* positions_active, and these two sets hold positions of the store only
C3_QueuedXorActive ==
    /\ \A id \in DOMAIN positions :
          (id \in positions_queued) # (id \in positions_active)
    /\ positions_queued \cup positions_active \subseteq DOMAIN positions

\* C3 happens: a position is queued, another was activated, a third was removed
C3_Witness ==
    /\ positions_queued # {}
    /\ positions_active # {}
    /\ Removed # {}

\* C4: order_number is set exactly for the active positions, by_number maps
\* it to its position, and every entry of by_number is an active position
C4_OrderNumberMap ==
    /\ \A id \in DOMAIN positions :
          (positions[id].order_number # <<>>) <=> (id \in positions_active)
    /\ \A id \in positions_active :
          /\ positions[id].order_number \in DOMAIN positions_by_number
          /\ positions_by_number[positions[id].order_number] = id
    /\ \A k \in DOMAIN positions_by_number :
          positions_by_number[k] \in positions_active

\* C5: the price of each active position occurs exactly once in order_prices
C5_ActivePriceOnce ==
    \A id \in positions_active :
        CopiesIn(positions[id].price, order_prices) = 1

\* C10: while a group is in diverge_converge, waiting for the cancels of its
\* members, every slot index of the group is reserved in diverging_converging
C10_GroupStaysReserved ==
    \A g \in diverge_converge :
        \A idx \in Range(g.indices) : BagIn(idx, diverging_converging)

\* the positions a step adds to the store
AddedByStep == DOMAIN positions' \ DOMAIN positions

\* the step is a fill notification processed for the active position id
FillOf(id) ==
    /\ id \in positions_active
    /\ ~positions[id].is_onetime
    /\ last'.op = "fill"
    /\ last'.pos = id

\* the slot of the lowest index of position id, after the step
SlotAfter(id) == SlotValue(position_index', getLowestMarketIndex(positions[id]))

\* the filled position is gone and one position was added, on the opposite
\* side and with the same market_indices
ReplacedBy(id, r) ==
    /\ id \notin DOMAIN positions'
    /\ AddedByStep = {r}
    /\ positions'[r].side # positions[id].side
    /\ positions'[r].market_indices = positions[id].market_indices

Advanced(idx) ==
    LET old == SlotAt(position_index, idx)
        new == SlotAt(position_index', idx)
    IN /\ new.fill_count = old.fill_count + 1
       /\ new.buy_price = old.buy_price
       /\ new.sell_price = old.sell_price
       /\ IF old.alternate_size > 0
          THEN new.order_size = old.alternate_size
               /\ new.alternate_size = old.order_size
          ELSE new.order_size = old.order_size
               /\ new.alternate_size = old.alternate_size

C7_LaterFillChangesNothing ==
    [][(last'.op = "refill" /\ last'.pos \notin DOMAIN positions) =>
          UNCHANGED <<positions, positions_queued, positions_active,
                      positions_by_number, position_index, order_prices,
                      diverge_converge, diverging_converging, running,
                      nam_new, nam_cancel>>]_vars

\* the step acknowledges the DC cancel of the active position id, the last
\* position of group g that was still to be acknowledged
LastDCAck(g, id) ==
    /\ g.positions = <<id>>
    /\ positions[id].cancel_reason = CANCELLING_FOR_DC
    /\ last'.op = "cancelled"
    /\ last'.pos = id

C11_TickerIdempotent ==
    (last.op = "ticker" /\ last.pos > 0) =>
        TickerFilled(Cur, highest_buy, lowest_sell, last.pos) = {}

\* the ticker step finds the active buy id at or above the ask, old enough
\* and not cancelling
TickerFillsBuy(id) ==
    /\ last'.op = "ticker"
    /\ positions[id].side = SIDE_BUY
    /\ positions[id].buy_price >= lowest_sell'
    /\ id \in TickerFilled(Cur, highest_buy', lowest_sell', last'.pos)

NonLocalCancelsSent == {r \in nam_cancel' \ nam_cancel : r.pos = 0}

\* the id was first seen by processOpenOrders more than the grace time ago
SeenLongAgo(key) ==
    /\ key \in DOMAIN order_grace_times
    /\ now - order_grace_times[key] > stray_grace_time_limit

WithinTolerance(reported, btc_amount) ==
    /\ reported >= ratio(btc_amount, 999)
    /\ reported <= ratio(btc_amount, 1001)

\* the open order x of the exchange is reported under an id the engine has
\* not seen and matches the queued position id, whose request is old enough
UnknownMatch(x, id, noise) ==
    /\ x.st = "open"
    /\ <<x.id>> \notin DOMAIN positions_by_number
    /\ <<x.id>> \notin DOMAIN order_grace_times
    /\ positions[id].side = x.side
    /\ positions[id].price = x.price
    /\ WithinTolerance(x.btc_amount + noise, positions[id].btc_amount)
    /\ positions[id].order_request_time < now - StrayMatchAge

\* the step activated the position under the reported id and neither
\* cancelled the order nor gave it a grace time
ActivatedUnder(x, id) ==
    /\ <<x.id>> \in DOMAIN positions_by_number'
    /\ positions_by_number'[<<x.id>>] = id
    /\ id \in positions_active' /\ id \notin positions_queued'
    /\ \A r \in nam_cancel' \ nam_cancel : r.key # <<x.id>>
    /\ <<x.id>> \notin DOMAIN order_grace_times'

\* every match of a full open-order list, outside cancel-all, is activated
StrayMatchActivated ==
    (/\ last'.op = "openorders" /\ last'.pos # BlankList
     /\ ~is_running_cancelall /\ position_index # <<>>) =>
        \A x \in xorders : \A id \in positions_queued :
            UnknownMatch(x, id, last'.pos) => ActivatedUnder(x, id)

\* C13: an unknown order id reported by processOpenOrders whose side and price
\* equal those of a queued position, whose amount is within 0.1 % of the
\* position's and whose position was requested long enough ago, activates
\* the position under that id, without a cancel and without a grace time
C13_StrayMatchActivates == [][StrayMatchActivated]_vars

\* the step is the reply to the new-order request that opened order o
AckOf(o) ==
    /\ last'.op = "ack"
    /\ o \in xorders /\ ~o.acked
    /\ o \notin xorders' /\ [o EXCEPT !.acked = TRUE] \in xorders'

\* C14: when the reply with an order number arrives for a position that was
\* cancelled while it was queued, the same event makes the position active,
\* leaves it cancelling with the reason of the cancel and sends a cancel
\* request for the order of the reply
C14_QueuedCancelSentOnAck ==
    [][\A o \in xorders :
          (/\ AckOf(o)
           /\ o.pos \in positions_queued
           /\ positions[o.pos].is_cancelling) =>
              /\ o.pos \in positions_active' /\ o.pos \notin positions_queued'
              /\ positions'[o.pos].is_cancelling
              /\ positions'[o.pos].cancel_reason = positions[o.pos].cancel_reason
              /\ positions'[o.pos].order_number = StoredOrderNumber(build, <<o.id>>)
              /\ \E r \in nam_cancel' \ nam_cancel :
                    r.pos = o.pos /\ r.key = positions'[o.pos].order_number]_vars

\* the first reply for a position the user cancelled while it was queued
C14_Witness ==
    /\ last.op = "ack"
    /\ last.pos \in positions_active
    /\ positions[last.pos].is_cancelling
    /\ positions[last.pos].cancel_reason = CANCELLING_FOR_USER
    /\ Cardinality({o \in xorders : o.pos = last.pos /\ o.acked}) = 1
    /\ \E r \in nam_cancel :
          r.pos = last.pos /\ r.key = positions[last.pos].order_number

\* tryMoveOrder was applied to a buy with the ticker set
MovedBuy(id) ==
    /\ last'.op = "trymove"
    /\ positions[id].side = SIDE_BUY
    /\ highest_buy > 0 /\ lowest_sell > 0

\* C16: with ticksize 1 and lowest_sell 105 a buy at 100 created at 100 stays
\* at 100 and tryMoveOrder returns false; created at 105 it moves to 104, is
\* flagged is_slippage and tryMoveOrder returns true.  A buy below lowest_sell
\* that tryMoveOrder moves gets a price strictly higher than before, at most
\* buy_price_original and below lowest_sell
C16_BuyRatchet ==
    [][\A id \in DOMAIN positions : MovedBuy(id) =>
          LET p == positions[id]
              q == positions'[id]
          IN /\ (p.buy_price = 100 /\ lowest_sell = 105 /\ p.buy_price_original = 100)
                   => (q.buy_price = 100 /\ ~last'.pos.moved)
             /\ (p.buy_price = 100 /\ lowest_sell = 105 /\ p.buy_price_original = 105)
                   => (q.buy_price = 104 /\ q.is_slippage /\ last'.pos.moved)
             /\ (p.buy_price < lowest_sell /\ last'.pos.moved)
                   => /\ q.buy_price > p.buy_price
                      /\ q.buy_price <= p.buy_price_original
                      /\ q.buy_price < lowest_sell
                      /\ q.is_slippage]_vars

\* the buy at 100, created at 105, was moved to 104 under lowest_sell 105
C16_Witness ==
    /\ last.op = "trymove" /\ last.pos.moved /\ last.pos.was = 100
    /\ lowest_sell = 105 /\ highest_buy > 0
    /\ positions[1].side = SIDE_BUY
    /\ positions[1].buy_price_original = 105
    /\ positions[1].buy_price = 104

\* processOpenOrders was called with a blank list while more than
\* BlankFlashActive positions were active
BlankFlash ==
    /\ last'.op = "openorders" /\ last'.pos = BlankList
    /\ should_mitigate_blank_orderbook_flash
    /\ Cardinality(positions_active) > BlankFlashActive

\* C17: processOpenOrders with a blank list of ids and orders, while more than
\* 50 positions are active and the mitigation is set, infers no fill and
\* adds, removes or changes no position
C17_BlankFlashChangesNothing ==
    [][BlankFlash =>
          /\ positions' = positions
          /\ positions_queued' = positions_queued
          /\ positions_active' = positions_active
          /\ positions_by_number' = positions_by_number
          /\ position_index' = position_index
          /\ order_prices' = order_prices
          /\ next_pos' = next_pos]_vars

\* a blank list came while more than 50 positions were active, one of them
\* set longer ago than the safety delay and not cancelling
C17_Witness ==
    /\ last.op = "openorders" /\ last.pos = BlankList
    /\ Cardinality(positions_active) > BlankFlashActive
    /\ \E id \in positions_active :
          /\ ~positions[id].is_cancelling
          /\ positions[id].order_cancel_time = 0
          /\ positions[id].order_set_time < now - safety_delay_time + 1

\* C18: an addPosition request that is rejected leaves the engine as it was:
\* no slot is appended to position_index, no position is stored, no price is
\* added to order_prices and no request is queued
C18_RejectedAddChangesNothing ==
    [][(last'.op = "addposition" /\ last'.pos = 0) =>
          /\ position_index' = position_index
          /\ positions' = positions
          /\ positions_queued' = positions_queued
          /\ order_prices' = order_prices
          /\ nam_new' = nam_new]_vars

\* the reasons a cancel is given for
CancelReasons ==
    {CANCELLING_FOR_DC, CANCELLING_FOR_SHORTLONG, CANCELLING_FOR_SLIPPAGE_RESET,
     CANCELLING_FOR_MAX_AGE, CANCELLING_LOWEST, CANCELLING_HIGHEST,
     CANCELLING_FOR_USER}

StrictlyIncreasing(q) == \A i \in 1..(Len(q) - 1) : q[i] < q[i + 1]

\* one index for a normal position; order_dc for a landmark, or fewer at the
\* first or the last slot of the index
RightSize(p) ==
    IF p.is_landmark
    THEN \/ Len(p.market_indices) = order_dc
         \/ 0 \in Range(p.market_indices)
         \/ Len(position_index) - 1 \in Range(p.market_indices)
    ELSE Len(p.market_indices) = 1

CancelTimedOut(id) ==
    /\ id \in positions_active
    /\ positions[id].is_cancelling
    /\ positions[id].order_set_time > 0
    /\ positions[id].order_cancel_time > 0
    /\ positions[id].order_cancel_time < now - cancel_timeout

\* C21: the re-cancel onCheckTimeouts issues for an active position whose
\* cancel request has timed out leaves the position's cancel_reason as it was
C21_RecancelKeepsReason ==
    [][last'.op = "timeouts" =>
          \A id \in DOMAIN positions \cap DOMAIN positions' :
              CancelTimedOut(id) =>
                  positions'[id].cancel_reason = positions[id].cancel_reason]_vars

\* the vector processOpenOrders hands to processFilledOrders after a blank
\* list, when the QSet yields f first
BlankBatch(f) ==
    InOrder([Cur EXCEPT !.first = f], OpenOrdersFilled(Cur, {}, now))

\* the order numbers processFilledOrders passes to fillNQ for the vector
Dispatched(filled) == SortByRatio(Cur, filled, SortedSurvivors(Cur, filled))

\* C22: processFilledOrders passes every position of the batch to fillNQ
\* exactly once, also when two positions of the batch have the same
\* buy_price / sell_price ratio
C22_EveryPositionDispatchedOnce ==
    [][last'.op = "openorders" /\ last'.pos = BlankList
       /\ ~is_running_cancelall
       /\ Cardinality(positions_active) <= BlankFlashActive =>
          \A f \in Orderings : \A id \in Range(BlankBatch(f)) :
              Cardinality({k \in DOMAIN Dispatched(BlankBatch(f)) :
                              Dispatched(BlankBatch(f))[k]
                                 = positions[id].order_number}) = 1]_vars

\* the step acknowledges the DC cancel of the active position id and leaves no
\* other position that is being cancelled for DC
FinalDCAck(id) ==
    /\ id \in positions_active
    /\ positions[id].is_cancelling
    /\ positions[id].cancel_reason = CANCELLING_FOR_DC
    /\ last'.op = "cancelled"
    /\ last'.pos = id
    /\ \A q \in DOMAIN positions' :
          ~(positions'[q].is_cancelling
            /\ positions'[q].cancel_reason = CANCELLING_FOR_DC)

\* a position of the store stands on the slot index
Covered(idx) ==
    \E q \in DOMAIN positions : idx \in Range(positions[q].market_indices)

\* C23: once the DC cancels of a group are all acknowledged, every slot index
\* of the member acknowledged last is covered by a position, also when another
\* member of the group was reported filled in the meantime
C23_RemainingSlotsCovered ==
    [][\A id \in DOMAIN positions :
          FinalDCAck(id) =>
              \A idx \in Range(positions[id].market_indices) : Covered(idx)']_vars

\* positions of the store that are being cancelled
Cancelling == {id \in DOMAIN positions : positions[id].is_cancelling}

\* C24: a timer tick that begins while the flow-control predicate yields adds
\* no position, cancels none and enqueues no transport request
C24_YieldedTickDoesNothing ==
    [][last'.op \in {"timeouts", "dc"} /\ last'.pos = Yielded =>
          /\ DOMAIN positions' = DOMAIN positions
          /\ Cancelling' = Cancelling
          /\ nam_new' = nam_new
          /\ nam_cancel' = nam_cancel]_vars

\* the positions the step takes out of the store
RemovedByStep == DOMAIN positions \ DOMAIN positions'

Reported ==
    IF last'.pos = BlankList THEN {}
    ELSE {StoredOrderNumber(build, <<o.id>>) : o \in {x \in xorders : x.st = "open"}}

ConvergeCandidates(f, side) ==
    DCCandidates([Cur EXCEPT !.first = f],
                 InOrder([Cur EXCEPT !.first = f], DOMAIN positions), side,
                 [converge |-> {}, diverge |-> {}]).converge

\* the index that lies k steps after i in the walk order of the side
WalkStep(i, k, side) == IF side = SIDE_BUY THEN i + k ELSE i - k

\* the candidate indices at which a run of order_dc consecutive candidates
\* starts
RunStarts(c, side) ==
    {i \in c : \A k \in 0 .. (order_dc - 1) : WalkStep(i, k, side) \in c}

\* the first run of order_dc consecutive candidate indices in walk order
FirstRun(c, side) ==
    LET i == CHOOSE x \in RunStarts(c, side) :
                \A y \in RunStarts(c, side) :
                    IF side = SIDE_BUY THEN x <= y ELSE x >= y
    IN [k \in 1 .. order_dc |-> WalkStep(i, k - 1, side)]

\* the runs a converge pass over each side has to cancel
ExpectedRuns(f) ==
    {FirstRun(ConvergeCandidates(f, side), side) :
        side \in {sd \in {SIDE_BUY, SIDE_SELL} :
                    RunStarts(ConvergeCandidates(f, sd), sd) # {}}}

\* the converge groups the step enters into diverge_converge
NewConvergeGroups == {g \in diverge_converge' \ diverge_converge : g.landmark}

\* the positions that are not landmarks and that the step cancels for DC
ConvergedByStep ==
    {id \in DOMAIN positions \cap DOMAIN positions' :
        /\ ~positions[id].is_landmark
        /\ ~positions[id].is_cancelling
        /\ positions'[id].is_cancelling
        /\ positions'[id].cancel_reason = CANCELLING_FOR_DC}

\* C27: a converge pass cancels for DC exactly the positions at the first
\* order_dc consecutive candidate indices in walk order, ascending for buys and
\* descending for sells, and nothing when there is no such run; it makes one
\* group per side at most
C27_ConvergeCancelsFirstRun ==
    [][last'.op = "dc" =>
          \E f \in Orderings :
              /\ {g.indices : g \in NewConvergeGroups} = ExpectedRuns(f)
              /\ Cardinality(NewConvergeGroups) = Cardinality(ExpectedRuns(f))
              /\ \A g \in NewConvergeGroups : \A k \in DOMAIN g.indices :
                    /\ g.positions[k] \in ConvergedByStep
                    /\ g.indices[k] \in Range(positions[g.positions[k]].market_indices)
              /\ \A id \in ConvergedByStep :
                    \E g \in NewConvergeGroups : id \in Range(g.positions)]_vars

\* a pass has converged the two highest of three sell candidates, walking
\* down from the top of the grid; the third candidate is left alone
C27_Witness ==
    /\ last.op = "dc"
    /\ \E g \in diverge_converge :
          /\ g.landmark
          /\ g.indices = <<4, 3>>
          /\ \A k \in DOMAIN g.positions :
                /\ g.positions[k] \in positions_active
                /\ positions[g.positions[k]].side = SIDE_SELL
                /\ positions[g.positions[k]].cancel_reason = CANCELLING_FOR_DC
    /\ \E id \in positions_active :
          /\ positions[id].market_indices = <<2>>
          /\ ~positions[id].is_cancelling

\* the positions of the groups the step enters into diverge_converge
GroupedByStep ==
    UNION {Range(g.positions) : g \in diverge_converge' \ diverge_converge}

\* the scan of onCheckDivergeConverge selects the position as a converge or
\* diverge candidate
DCSelected(id) ==
    \E side \in {SIDE_BUY, SIDE_SELL} :
        /\ DCEligible(Cur, id, side)
        /\ ShouldConverge(Cur, id) \/ ShouldDiverge(Cur, id)

\* no position is in the key of two groups of diverge_converge
OneGroupEach ==
    \A g \in diverge_converge : \A h \in diverge_converge :
        g # h => Range(g.positions) \cap Range(h.positions) = {}

\* C28: every position a diverge/converge scan cancels for DC is, when the
\* scan runs, active with an order number, not one-time, not yet cancelling
\* and a candidate of the scan; no position is in two DC groups at once
C28_ScanCancelsCandidates ==
    [][/\ last'.op = "dc" =>
             \A id \in GroupedByStep :
                 /\ id \in positions_active
                 /\ positions[id].order_number # <<>>
                 /\ ~positions[id].is_onetime
                 /\ ~positions[id].is_cancelling
                 /\ DCSelected(id)
       /\ OneGroupEach']_vars

\* the positions of the side that are not being cancelled, as
\* checkBuySellCount tallies them
Tallied(side) ==
    {id \in DOMAIN positions :
        positions[id].side = side /\ ~positions[id].is_cancelling}

\* the positions the step cancels with the reason
CancelledFor(reason) ==
    {id \in DOMAIN positions \cap DOMAIN positions' :
        /\ ~positions[id].is_cancelling
        /\ positions'[id].is_cancelling
        /\ positions'[id].cancel_reason = reason}

\* C29: when checkBuySellCount finds more than order_max buys that are not
\* being cancelled, every position it cancels for the excess is such a buy and
\* no such buy that it leaves has a lower slot index; likewise the sells, with
\* the highest index
C29_ExcessCancelsOwnSide ==
    [][last'.op = "timeouts" =>
          /\ \A id \in CancelledFor(CANCELLING_LOWEST) :
                /\ id \in Tallied(SIDE_BUY)
                /\ Cardinality(Tallied(SIDE_BUY)) > info.order_max
                /\ \A q \in (Tallied(SIDE_BUY) \cap PingPongs(Cur))
                              \ CancelledFor(CANCELLING_LOWEST) :
                      getLowestMarketIndex(positions[q])
                         >= getLowestMarketIndex(positions[id])
          /\ \A id \in CancelledFor(CANCELLING_HIGHEST) :
                /\ id \in Tallied(SIDE_SELL)
                /\ Cardinality(Tallied(SIDE_SELL)) > info.order_max
                /\ \A q \in (Tallied(SIDE_SELL) \cap PingPongs(Cur))
                              \ CancelledFor(CANCELLING_HIGHEST) :
                      getHighestMarketIndex(positions[q])
                         <= getHighestMarketIndex(positions[id])]_vars

\* C30: a run of checkBuySellCount that flow control never suspends comes to
\* its end under every setting with order_min >= 1 and order_max >= 1. Whether
\* a pass asks for another one (new_orders_ct > 0) is decided by the settings
\* and the tallies alone, so a run that ends has no pass that asks for another
\* one and leaves the tallies as it found them
C30_CountTerminates ==
    [][tallies.counting /\ tallies'.counting => tallies' # tallies]_vars


\* the step acknowledges the cancel of the active position id, whose cancel
\* reason is SHORTLONG
ShortLongAck(id) ==
    /\ id \in positions_active
    /\ positions[id].is_cancelling
    /\ positions[id].cancel_reason = CANCELLING_FOR_SHORTLONG
    /\ last'.op = "cancelled"
    /\ last'.pos = id

\* the step replaced id by one position of the opposite side on the same
\* market_indices, with the prices and the size of the slot
FlippedFromSlot(id) ==
    \E r \in AddedByStep :
        /\ ReplacedBy(id, r)
        /\ positions'[r].buy_price = SlotAfter(id).buy_price
        /\ positions'[r].sell_price = SlotAfter(id).sell_price
        /\ positions'[r].btc_amount =
              SumSizes(position_index', positions[id].market_indices)

StaleSent(id) ==
    /\ id \in positions_queued
    /\ positions[id].order_set_time = 0
    /\ positions[id].order_request_time > 0
    /\ positions[id].order_request_time < now - request_timeout

\* a new-order request for the position id waits in nam_queue: sendBuySell
\* was called for it and the request has not gone out yet
Resubmitted(id) ==
    \E i \in DOMAIN waves.nam_queue :
        waves.nam_queue[i] = [cmd |-> "on", pos |-> id]

\* C32: with the timers firing again and again and flow control yielding only
\* for a while, every queued position whose new-order request was sent and not
\* acknowledged within request_timeout is resubmitted in the end, also when
\* several such positions are stale together
C32_StaleResubmitted ==
    (<>[]~yieldToFlowControl(waves))
       => \A id \in 1 .. 3 :
            (StaleSent(id) /\ ~Resubmitted(id))
               ~> (Resubmitted(id) \/ ~StaleSent(id))

\* the cancel of the active position id was acknowledged: the adapter holds
\* it in cancelling_orders_to_query
CancelAcked(id) ==
    /\ id \in positions_active
    /\ id \in Range(waves.cancelling_orders_to_query)

\* an order status request for the position id is queued or sent
StatusQueried(id) ==
    \/ \E i \in DOMAIN waves.nam_queue :
          waves.nam_queue[i] = [cmd |-> "os", pos |-> id]
    \/ BagIn([cmd |-> "os", pos |-> id], waves.nam_queue_sent)

\* C33: with the timers firing again and again, an active position whose
\* cancel was acknowledged (OrderCanceled or OrderCancelRejected) is status
\* queried in the end, or has left the active set, also when the request
\* queue is not empty whenever the send timer fires
C33_AckedCancelQueried ==
    \A id \in 1 .. 3 :
        CancelAcked(id) ~> (StatusQueried(id) \/ id \notin positions_active)

\* the reply with the given outcome has just been handled for position id,
\* which was queued
FailedReply(outcome, id) ==
    /\ last'.op = outcome
    /\ last'.pos = id
    /\ id \in positions_queued

\* every position but id is what it was
OthersKept(id) ==
    /\ DOMAIN positions' = DOMAIN positions \ {id}
    /\ \A x \in DOMAIN positions' : positions'[x] = positions[x]

\* C34: a new-order reply that fails for want of balance removes the queued
\* position from the queued set, from the positions, its price from
\* order_prices and its indices from the diverge/converge reservations, and
\* any other failed reply leaves the position queued and the store as it was
C34_BalanceFailureRemoves ==
    [][\A id \in 1 .. MaxSlots :
         /\ FailedReply("no_balance", id)
              => /\ id \notin positions_queued'
                 /\ id \notin positions_active'
                 /\ OthersKept(id)
                 /\ order_prices' = BagRemoveOne(order_prices, positions[id].price)
                 /\ \A g \in diverge_converge' : id \notin Range(g.positions)
                 /\ diverging_converging'
                       = BagRemoveSeq(diverging_converging,
                                      positions[id].market_indices)
                 /\ positions_queued' = positions_queued \ {id}
                 /\ positions_by_number' = positions_by_number
         /\ FailedReply("failed", id)
              => /\ positions' = positions
                 /\ positions_queued' = positions_queued
                 /\ positions_active' = positions_active
                 /\ order_prices' = order_prices
                 /\ positions_by_number' = positions_by_number
                 /\ diverge_converge' = diverge_converge
                 /\ diverging_converging' = diverging_converging]_vars

\* a queued position was removed by a balance failure while another position
\* stays in the store
C34_Witness ==
    /\ last.op = "no_balance"
    /\ last.pos \in 1 .. MaxSlots
    /\ last.pos \notin DOMAIN positions
    /\ DOMAIN positions # {}
    /\ BagCardinality(order_prices) = Cardinality(DOMAIN positions)

\* the position of the store that carries the order number
Numbered(k) ==
    positions[CHOOSE id \in DOMAIN positions : positions[id].order_number = k]

\* the first position stands before the second in the order of the buy_price
\* / sell_price ratios when a one-time order counts as ratio 1
RatioBelow(p, q) ==
    LET num(x) == IF x.is_onetime THEN 1 ELSE x.buy_price
        den(x) == IF x.is_onetime THEN 1 ELSE x.sell_price
    IN num(p) * den(q) < num(q) * den(p)

C36_CrossedTickerDiscarded ==
    [][\A t \in CrossedTickers : \A rt \in {0, now} :
          ProcessTicker(t, rt) =>
              /\ highest_buy' = highest_buy
              /\ lowest_sell' = lowest_sell]_vars

\* what the code does with such an entry: both prices are positive, so the
\* entry is stored; no fill is inferred from it
CrossedTickerStored ==
    [][\A t \in CrossedTickers : \A rt \in {0, now} :
          ProcessTicker(t, rt) =>
              /\ highest_buy' = t.bid
              /\ lowest_sell' = t.ask
              /\ positions' = positions
              /\ positions_active' = positions_active]_vars

\* C37: whatever sequence of tryMoveOrder and findBetterPrice steps a position
\* has gone through, a buy's buy_price is at most its buy_price_original and
\* a sell's sell_price is at least its sell_price_original
C37_PriceWithinOriginal ==
    \A id \in DOMAIN positions :
        IF positions[id].side = SIDE_BUY
        THEN positions[id].buy_price <= positions[id].buy_price_original
        ELSE positions[id].sell_price >= positions[id].sell_price_original

\* the answer to an open-orders request sent at rt has just been handled
SnapshotAnswered(rt) ==
    /\ last'.op = "myorders"
    /\ last'.pos = rt

\* the request of the answer is no older than orderbook_stale_tolerance and
\* no earlier than the request of any answer taken before
SnapshotFresh(rt) ==
    /\ rt >= now - orderbook_stale_tolerance
    /\ rt >= waves.orderbook_update_request_time

\* C38: the adapter hands an open-orders answer to processOpenOrders only if
\* its request is no older than orderbook_stale_tolerance and no earlier than
\* the request of every answer handed over before; the request time of the
\* newest answer taken never goes back, and an older or stale answer changes
\* no position
C38_SnapshotsInRequestOrder ==
    [][/\ waves'.orderbook_update_request_time
             >= waves.orderbook_update_request_time
       /\ \A rt \in 0 .. (StartTime + MaxTicks + SnapTicks) :
            SnapshotAnswered(rt) =>
               IF SnapshotFresh(rt)
               THEN waves'.orderbook_update_request_time = rt
               ELSE /\ waves'.orderbook_update_request_time
                          = waves.orderbook_update_request_time
                    /\ positions' = positions
                    /\ positions_active' = positions_active
                    /\ positions_queued' = positions_queued
                    /\ positions_by_number' = positions_by_number
                    /\ order_prices' = order_prices
                    /\ position_index' = position_index]_vars

\* an answer arrived whose request is within the tolerance but earlier than
\* the request of an answer taken before, and the positions of the grid are
\* all still there
C38_Witness ==
    /\ last.op = "myorders"
    /\ last.pos < waves.orderbook_update_request_time
    /\ last.pos >= now - orderbook_stale_tolerance
    /\ positions_active # {}

\* the test fill of the slot has removed the position id, which stood on it
TestFilled(idx, id) ==
    /\ last'.op = "testfill"
    /\ last'.pos = idx
    /\ id \in DOMAIN positions
    /\ positions[id].market_indices = <<idx>>
    /\ id \notin DOMAIN positions'

\* C39: in a test run the replacement that a fill creates is found by its
\* order number once the filled position is removed, so that the slot can be
\* filled again
C39_ReplacementRetrievable ==
    [][\A idx \in 0 .. (MaxSlots - 1) : \A id \in DOMAIN positions :
          TestFilled(idx, id) =>
              \E r \in DOMAIN positions' \ DOMAIN positions :
                  /\ positions'[r].market_indices = <<idx>>
                  /\ positions'[r].order_number \in DOMAIN positions_by_number'
                  /\ positions_by_number'[positions'[r].order_number] = r]_vars

\* what the code leaves behind: the replacement stands active on the slot
\* under the order number of the slot, and no entry of positions_by_number
\* has that number
ReplacementUnmapped ==
    [][\A idx \in 0 .. (MaxSlots - 1) : \A id \in DOMAIN positions :
          TestFilled(idx, id) =>
              \E r \in DOMAIN positions' \ DOMAIN positions :
                  /\ r \in positions_active'
                  /\ positions'[r].market_indices = <<idx>>
                  /\ positions'[r].order_number = <<MarketTok, idx>>
                  /\ <<MarketTok, idx>> \notin DOMAIN positions_by_number']_vars

=========================================================================
